---- MODULE Spec2Model ----
(***************************************************************************)
(* Model of the voxel-world core of FREUDIXCRAFT: Chunk storage, the       *)
(* ChunkManager streaming state machine (update / setBlock /               *)
(* setRenderDistance / destroy), the MeshBuilder surface extraction and    *)
(* the column lighting pass and the day/night clock of LightingSystem.     *)
(*                                                                         *)
(* Representation.  A Chunk owns two Uint8Array of 16*256*16 cells.  They  *)
(* are kept here as functions from the linear index of Chunk.getIndex to   *)
(* the stored value, holding only the cells that differ from the array's   *)
(* fill value (blocks: AIR; lightLevels: the `fill' field).  Reading an    *)
(* index that is not in the function yields the fill value, so the         *)
(* function denotes the whole array.                                       *)
(*                                                                         *)
(* A THREE.BufferGeometry is kept as the set of faces <<x, y, z, face>>    *)
(* it was built from; the geometry has a 'position' attribute iff that set *)
(* is not empty (MeshBuilder.buildChunkMesh).                              *)
(*                                                                         *)
(* A handler that raises a TypeError stops where it is: the manager state  *)
(* carries a `threw' flag and every later step of the handler is skipped.  *)
(***************************************************************************)
EXTENDS Integers, Sequences, FiniteSets, Bags, TLC

VARIABLES chunks, loadedChunks, meshes, scene, renderDistance, edits, last, timeOfDay

vars == <<chunks, loadedChunks, meshes, scene, renderDistance, edits, last, timeOfDay>>

-----------------------------------------------------------------------------
(* Program constants                                                       *)

CHUNK_SIZE == 16
CHUNK_HEIGHT == 256

AIR == 0
GRASS == 1
DIRT == 2
STONE == 3
WOOD == 4
LEAVES == 5
WATER == 6
SAND == 7
COBBLESTONE == 8

BlockType == AIR..COBBLESTONE

\* LightingSystem: a full day/night cycle lasts DAY_LENGTH seconds.  timeOfDay
\* is a fraction of the day; it is kept in milliseconds of the day, so that
\* one day (the 1 of the code) is DAY_MS and the initial 0.25 is DAY_MS / 4.
DAY_LENGTH == 120
DAY_MS == DAY_LENGTH * 1000
INITIAL_TIME_OF_DAY == DAY_MS \div 4

MIN_RENDER_DISTANCE == 2
MAX_RENDER_DISTANCE == 4
INITIAL_RENDER_DISTANCE == 2

\* BLOCK_PROPERTIES: the three fields the core reads.
BLOCK_PROPERTIES ==
  [b \in BlockType |->
     [visible     |-> b # AIR,
      solid       |-> b \notin {AIR, WATER},
      transparent |-> b \in {AIR, LEAVES, WATER}]]

-----------------------------------------------------------------------------
(* Bounds of the model                                                     *)

\* setBlock calls that reach a loaded chunk with y in range, per behaviour.
MaxEdits == 1

\* Player positions (x, z) handed to update, in world units: chunk (0, 0)
\* and chunk (-3, 0).
PlayerPositions == {<<8, 8>>, <<-40, 8>>}

\* World columns (x, z) handed to setBlock: the corner cells (0, 0) of chunk
\* (0, 0) and (15, 0) of chunk (-1, 0), which hold the generated blocks; an
\* interior cell; a cell on each of the four edges; a column of a chunk that
\* is never loaded.  The last input of EditInputs places a block inside chunk
\* (-1, 1), which is loaded but not rendered for a player in chunk (-3, 0) at
\* render distance 2 while its east neighbour (0, 1) is not loaded; the one
\* after it places a block on top of the generated block of chunk (0, 0); the
\* last one places a block inside chunk (0, 1), which is evicted when the
\* player moves from chunk (0, 0) to chunk (-3, 0).
EditColumns ==
  {<<0, 0>>, <<-1, 0>>, <<7, 7>>, <<0, 7>>, <<-1, 7>>, <<7, 0>>, <<7, -1>>, <<192, 7>>}
EditKinds == {AIR, STONE}
EditInputs ==
  {<<c[1], 0, c[2], k>> : c \in EditColumns, k \in EditKinds}
    \cup {<<0, -1, 0, STONE>>, <<0, 256, 0, AIR>>, <<7, -1, 7, STONE>>, <<-1, 256, 0, AIR>>}
    \cup {<<-9, 0, 23, STONE>>, <<0, 1, 0, STONE>>}
    \cup {<<7, 0, 23, STONE>>}

\* Distances handed to setRenderDistance.
RequestedDistances == {1, 3, 6}

\* Chunk coordinates a key can be parsed back to (loadChunk's split/Number).
KeyCoordMax == 9
KeyCoords == ((0 - KeyCoordMax)..KeyCoordMax) \X ((0 - KeyCoordMax)..KeyCoordMax)

-----------------------------------------------------------------------------
(* Arithmetic of the host language                                         *)

\* JavaScript's % : the remainder takes the sign of the dividend.
JsRem(a, n) == IF a >= 0 THEN a % n ELSE 0 - ((0 - a) % n)

\* Math.floor(a / n) for integers a and n > 0.
FloorDiv(a, n) == a \div n

Max2(a, b) == IF a >= b THEN a ELSE b
Min2(a, b) == IF a <= b THEN a ELSE b

EmptyFn == [i \in {} |-> 0]

Restrict(f, S) == [i \in S |-> f[i]]

-----------------------------------------------------------------------------
(* Chunk                                                                   *)

NewChunk(x, z) ==
  [x |-> x, z |-> z,
   blocks |-> EmptyFn,
   lightLevels |-> [fill |-> 0, cells |-> EmptyFn]]

\* Variant without the upper limit on x: x = 16 falls on the cell (0, y, z + 1)
\* through the linear index.  C16 tells the two apart.
InChunkBounds_NoUpperX(x, y, z) ==
  ~(x < 0 \/ y < 0 \/ y >= CHUNK_HEIGHT \/ z < 0 \/ z >= CHUNK_SIZE)

InChunkBounds(x, y, z) ==
  ~(x < 0 \/ x >= CHUNK_SIZE \/ y < 0 \/ y >= CHUNK_HEIGHT \/ z < 0 \/ z >= CHUNK_SIZE)

\* Variant with the z stride dropped: cells (x, y, z) and (z, y, x) share an
\* index.  C7 tells the two apart.
ChunkGetIndex_NoRowStride(x, y, z) == y * CHUNK_SIZE * CHUNK_SIZE + z + x

ChunkGetIndex(x, y, z) == y * CHUNK_SIZE * CHUNK_SIZE + z * CHUNK_SIZE + x

\* Coordinates of an in-range linear index.
IndexX(i) == i % CHUNK_SIZE
IndexZ(i) == (i \div CHUNK_SIZE) % CHUNK_SIZE
IndexY(i) == i \div (CHUNK_SIZE * CHUNK_SIZE)

ChunkGetBlock(c, x, y, z) ==
  IF ~InChunkBounds(x, y, z) THEN AIR
  ELSE LET i == ChunkGetIndex(x, y, z)
       IN IF i \in DOMAIN c.blocks THEN c.blocks[i] ELSE AIR

ChunkSetBlock(c, x, y, z, blockType) ==
  IF ~InChunkBounds(x, y, z) THEN c
  ELSE LET i == ChunkGetIndex(x, y, z)
       IN [c EXCEPT !.blocks =
             IF blockType = AIR
               THEN Restrict(@, DOMAIN @ \ {i})
               ELSE (i :> blockType) @@ @]

ChunkGetLightLevel(c, x, y, z) ==
  IF ~InChunkBounds(x, y, z) THEN 0
  ELSE LET i == ChunkGetIndex(x, y, z)
       IN IF i \in DOMAIN c.lightLevels.cells THEN c.lightLevels.cells[i]
          ELSE c.lightLevels.fill

\* Variant that clamps from below only.  C17 tells the two apart.
ChunkSetLightLevel_NoUpperClamp(c, x, y, z, level) ==
  IF ~InChunkBounds(x, y, z) THEN c
  ELSE LET i == ChunkGetIndex(x, y, z)
           v == Max2(0, level)
       IN [c EXCEPT !.lightLevels.cells =
             IF v = c.lightLevels.fill
               THEN Restrict(@, DOMAIN @ \ {i})
               ELSE (i :> v) @@ @]

ChunkSetLightLevel(c, x, y, z, level) ==
  IF ~InChunkBounds(x, y, z) THEN c
  ELSE LET i == ChunkGetIndex(x, y, z)
           v == Max2(0, Min2(15, level))
       IN [c EXCEPT !.lightLevels.cells =
             IF v = c.lightLevels.fill
               THEN Restrict(@, DOMAIN @ \ {i})
               ELSE (i :> v) @@ @]

\* Highest y of the column holding a non-Air block, 0 for an all-Air column.
ChunkGetHeightAt(c, x, z) ==
  LET ys == {IndexY(i) : i \in {j \in DOMAIN c.blocks :
                                  IndexX(j) = x /\ IndexZ(j) = z}}
  IN IF ys = {} THEN 0 ELSE CHOOSE y \in ys : \A y2 \in ys : y2 <= y

-----------------------------------------------------------------------------
(* WorldGenerator, as the manager sees it.  The terrain is scaled down to  *)
(* one column of one block per chunk (at y = 0, on the chunk's west edge   *)
(* for even chunkX and on its east edge for odd chunkX, so that the blocks *)
(* of chunks 2k-1 and 2k touch across the chunk border).  Like the         *)
(* generator, it writes through Chunk.setBlock and leaves at least one     *)
(* non-Air block in the chunk.                                             *)

GenerateChunk(c) ==
  LET lx == IF c.x % 2 = 0 THEN 0 ELSE CHUNK_SIZE - 1
  IN ChunkSetBlock(c, lx, 0, 0, STONE)

-----------------------------------------------------------------------------
(* LightingSystem.calculateChunkLighting                                   *)

\* One column from y down to 0 with the running value lightLevel: the cells
\* whose stamped level differs from 15.  The Air cells down to the next
\* non-Air cell of the column are all stamped with the running value, so the
\* scan goes from one non-Air cell to the next.
\* Variant that takes 7 off the running value at a non-Air cell instead
\* of 8.  C26 tells the two apart.
RECURSIVE ScanColumn_WeakerAttenuation(_, _, _, _, _)
ScanColumn_WeakerAttenuation(c, x, z, y, lightLevel) ==
  IF y < 0 THEN EmptyFn
  ELSE LET solidYs == {IndexY(i) : i \in {j \in DOMAIN c.blocks :
                          IndexX(j) = x /\ IndexZ(j) = z /\ IndexY(j) <= y}}
           next == IF solidYs = {} THEN -1
                   ELSE CHOOSE y1 \in solidYs : \A y2 \in solidYs : y2 <= y1
           airLevel == Max2(0, Min2(15, lightLevel))
           air == IF airLevel = 15 THEN EmptyFn
                  ELSE [i \in {ChunkGetIndex(x, y1, z) : y1 \in (next + 1)..y} |-> airLevel]
           v == Max2(0, Min2(15, Max2(8, lightLevel)))
           below == Max2(2, lightLevel - 7)
       IN IF next < 0 THEN air
          ELSE air @@ (IF v = 15 THEN EmptyFn ELSE (ChunkGetIndex(x, next, z) :> v))
                   @@ ScanColumn_WeakerAttenuation(c, x, z, next - 1, below)

RECURSIVE ScanColumn(_, _, _, _, _)
ScanColumn(c, x, z, y, lightLevel) ==
  IF y < 0 THEN EmptyFn
  ELSE LET solidYs == {IndexY(i) : i \in {j \in DOMAIN c.blocks :
                          IndexX(j) = x /\ IndexZ(j) = z /\ IndexY(j) <= y}}
           next == IF solidYs = {} THEN -1
                   ELSE CHOOSE y1 \in solidYs : \A y2 \in solidYs : y2 <= y1
           airLevel == Max2(0, Min2(15, lightLevel))
           air == IF airLevel = 15 THEN EmptyFn
                  ELSE [i \in {ChunkGetIndex(x, y1, z) : y1 \in (next + 1)..y} |-> airLevel]
           v == Max2(0, Min2(15, Max2(8, lightLevel)))
           below == Max2(2, lightLevel - 8)
       IN IF next < 0 THEN air
          ELSE air @@ (IF v = 15 THEN EmptyFn ELSE (ChunkGetIndex(x, next, z) :> v))
                   @@ ScanColumn(c, x, z, next - 1, below)

\* Every cell of the chunk is stamped.  The cells above the highest non-Air
\* block of a column are Air met with the running value 15, so they are
\* stamped 15, which becomes the fill value; the scan of a column with blocks
\* starts at its highest block with the running value still 15.
RECURSIVE ScanColumns(_, _)
ScanColumns(c, cols) ==
  IF cols = {} THEN EmptyFn
  ELSE LET col == CHOOSE q \in cols : TRUE
       IN ScanColumn(c, col[1], col[2], ChunkGetHeightAt(c, col[1], col[2]), 15)
            @@ ScanColumns(c, cols \ {col})

CalculateChunkLighting(c) ==
  LET cols == {<<IndexX(i), IndexZ(i)>> : i \in DOMAIN c.blocks}
  IN [c EXCEPT !.lightLevels = [fill |-> 15, cells |-> ScanColumns(c, cols)]]

-----------------------------------------------------------------------------
(* ChunkManager: keys and block access                                     *)

\* `${Math.floor(x)}_${Math.floor(z)}` for integer x and z.
GetChunkKey(x, z) == ToString(x) \o "_" \o ToString(z)

\* key.split('_').map(Number): the coordinates whose key this is.
KeyOfCoords == [c \in KeyCoords |-> GetChunkKey(c[1], c[2])]
CoordsOfKey ==
  [key \in {KeyOfCoords[c] : c \in KeyCoords} |->
     CHOOSE c \in KeyCoords : KeyOfCoords[c] = key]
ParseChunkKey(key) == CoordsOfKey[key]

\* ((w % CHUNK_SIZE) + CHUNK_SIZE) % CHUNK_SIZE
\* Variant with a single remainder, which is negative for negative w.  C5
\* tells the two apart.
LocalCoordinate_SingleRemainder(w) == JsRem(w, CHUNK_SIZE)

LocalCoordinate(w) == JsRem(JsRem(w, CHUNK_SIZE) + CHUNK_SIZE, CHUNK_SIZE)

ManagerGetBlock(chs, x, y, z) ==
  IF y < 0 \/ y >= CHUNK_HEIGHT THEN AIR
  ELSE LET chunkX == FloorDiv(x, CHUNK_SIZE)
           chunkZ == FloorDiv(z, CHUNK_SIZE)
           key == GetChunkKey(chunkX, chunkZ)
       IN IF key \notin DOMAIN chs THEN AIR
          ELSE LET localX == LocalCoordinate(x)
                   localZ == LocalCoordinate(z)
               IN ChunkGetBlock(chs[key], localX, y, localZ)

-----------------------------------------------------------------------------
(* MeshBuilder                                                             *)

\* FACES[faceIndex].dir, faceIndex 0..5: front, back, right, left, top, bottom.
FACES == <<
  <<0, 0, 1>>, <<0, 0, -1>>, <<1, 0, 0>>, <<-1, 0, 0>>, <<0, 1, 0>>, <<0, -1, 0>> >>

FaceIndexes == 0..5

\* FACES[faceIndex].normal
FACE_NORMALS == <<
  <<0, 0, 1>>, <<0, 0, -1>>, <<1, 0, 0>>, <<-1, 0, 0>>, <<0, 1, 0>>, <<0, -1, 0>> >>

\* Variant that looks at the neighbour's properties only.  C15 tells the two
\* apart.
ShouldCullFace_NeighborOnly(currentBlock, neighborBlock) ==
  IF neighborBlock = AIR THEN FALSE
  ELSE IF neighborBlock = WATER \/ neighborBlock = LEAVES THEN FALSE
  ELSE BLOCK_PROPERTIES[neighborBlock].solid /\ ~BLOCK_PROPERTIES[neighborBlock].transparent

ShouldCullFace(currentBlock, neighborBlock) ==
  IF neighborBlock = AIR THEN FALSE
  ELSE IF neighborBlock = WATER \/ neighborBlock = LEAVES THEN FALSE
  ELSE BLOCK_PROPERTIES[currentBlock].solid /\ BLOCK_PROPERTIES[neighborBlock].solid
       /\ ~BLOCK_PROPERTIES[currentBlock].transparent
       /\ ~BLOCK_PROPERTIES[neighborBlock].transparent

\* Variant that never asks the manager: a neighbour across the chunk edge
\* reads as Air.  C14 tells the two apart.
NeighborBlock_OwnChunkOnly(c, chs, x, y, z, faceIndex) ==
  LET dir == FACES[faceIndex + 1]
  IN ChunkGetBlock(c, x + dir[1], y + dir[2], z + dir[3])

\* The neighbour of cell (x, y, z) of chunk c toward face faceIndex.
NeighborBlock(c, chs, x, y, z, faceIndex) ==
  LET dir == FACES[faceIndex + 1]
      neighborX == x + dir[1]
      neighborY == y + dir[2]
      neighborZ == z + dir[3]
      worldX == c.x * CHUNK_SIZE + x
      worldZ == c.z * CHUNK_SIZE + z
  IN IF neighborX < 0 \/ neighborX >= CHUNK_SIZE \/ neighborZ < 0 \/ neighborZ >= CHUNK_SIZE
       THEN ManagerGetBlock(chs, worldX + dir[1], neighborY, worldZ + dir[3])
       ELSE ChunkGetBlock(c, neighborX, neighborY, neighborZ)

\* The faces addBlockFaces emits for one cell.
AddBlockFaces(c, chs, x, y, z, blockType) ==
  IF ~BLOCK_PROPERTIES[blockType].visible THEN {}
  ELSE {faceIndex \in FaceIndexes :
          ~ShouldCullFace(blockType, NeighborBlock(c, chs, x, y, z, faceIndex))}

\* The cells buildChunkMesh visits: per column, y in [max(0, maxY-60), maxY)
\* with maxY = min(CHUNK_HEIGHT, heightAt + 10), skipping Air.
ScannedCells(c) ==
  {i \in DOMAIN c.blocks :
     LET maxY == Min2(CHUNK_HEIGHT, ChunkGetHeightAt(c, IndexX(i), IndexZ(i)) + 10)
     IN /\ IndexY(i) >= Max2(0, maxY - 60)
        /\ IndexY(i) < maxY
        /\ ChunkGetBlock(c, IndexX(i), IndexY(i), IndexZ(i)) # AIR}

\* The geometry: its faces; it has a 'position' attribute iff faces # {}.
BuildChunkMesh(c, chs) ==
  UNION {{<<IndexX(i), IndexY(i), IndexZ(i), faceIndex>> :
            faceIndex \in AddBlockFaces(c, chs, IndexX(i), IndexY(i), IndexZ(i), c.blocks[i])} :
         i \in ScannedCells(c)}

-----------------------------------------------------------------------------
(* ChunkManager: the state a handler works on                              *)
(*                                                                         *)
(* m.chunks        Map<string, Chunk>                                      *)
(* m.loadedChunks  Set<string>                                             *)
(* m.meshes        Map<string, THREE.Mesh>: key -> [geometry, position]    *)
(* m.scene         the meshes added to the THREE.Scene, as a bag of keys   *)
(* m.events        what the handler did so far, in order                   *)
(* m.threw         a TypeError was raised: the handler has stopped         *)

Manager(chs, lc, ms, sc) ==
  [chunks |-> chs, loadedChunks |-> lc, meshes |-> ms, scene |-> sc,
   events |-> <<>>, threw |-> FALSE]

\* Variant that takes the mesh out of the scene but leaves its entry in the
\* meshes map.  C1 tells the two apart.
RemoveChunkMesh_KeepsEntry(m, key) ==
  IF m.threw THEN m
  ELSE IF key \in DOMAIN m.meshes
    THEN [m EXCEPT !.scene = @ (-) SetToBag({key}),
                   !.events = Append(@, <<"remove", key>>)]
    ELSE m

RemoveChunkMesh(m, key) ==
  IF m.threw THEN m
  ELSE IF key \in DOMAIN m.meshes
    THEN [m EXCEPT !.scene = @ (-) SetToBag({key}),
                   !.meshes = Restrict(@, DOMAIN @ \ {key}),
                   !.events = Append(@, <<"remove", key>>)]
    ELSE m

\* geometry.getAttribute('position') is undefined for a geometry without
\* faces, and reading its .count raises a TypeError.
GenerateChunkMesh(m, key) ==
  IF m.threw THEN m
  ELSE IF key \notin DOMAIN m.chunks THEN m
  ELSE LET chunk == m.chunks[key]
           geometry == BuildChunkMesh(chunk, m.chunks)
       IN IF geometry = {}
            THEN [m EXCEPT !.threw = TRUE,
                           !.events = @ \o << <<"extract", key>>, <<"throw", key>> >>]
            ELSE [m EXCEPT
                    !.scene = @ (+) SetToBag({key}),
                    !.meshes = (key :> [geometry |-> geometry,
                                        position |-> <<chunk.x * CHUNK_SIZE, 0,
                                                       chunk.z * CHUNK_SIZE>>]) @@ @,
                    !.events = @ \o << <<"extract", key>>, <<"add", key>> >>]

\* Variant that lights the chunk while it is still empty and generates it
\* afterwards.  C22 tells the two apart.
LoadChunk_LightsBeforeGenerating(m, key) ==
  IF m.threw THEN m
  ELSE LET xz == ParseChunkKey(key)
           chunk == GenerateChunk(CalculateChunkLighting(NewChunk(xz[1], xz[2])))
       IN [m EXCEPT !.chunks = (key :> chunk) @@ @,
                    !.loadedChunks = @ \cup {key},
                    !.events = @ \o << <<"light", key>>, <<"generate", key>>,
                                       <<"load", key>> >>]

LoadChunk(m, key) ==
  IF m.threw THEN m
  ELSE LET xz == ParseChunkKey(key)
           chunk == CalculateChunkLighting(GenerateChunk(NewChunk(xz[1], xz[2])))
       IN [m EXCEPT !.chunks = (key :> chunk) @@ @,
                    !.loadedChunks = @ \cup {key},
                    !.events = @ \o << <<"generate", key>>, <<"light", key>>,
                                       <<"load", key>> >>]

UnloadChunk(m, key) ==
  IF m.threw THEN m
  ELSE RemoveChunkMesh(
         [m EXCEPT !.chunks = Restrict(@, DOMAIN @ \ {key}),
                   !.loadedChunks = @ \ {key},
                   !.events = Append(@, <<"unload", key>>)],
         key)

\* Math.sqrt(dx^2 + dz^2) <= d, for integers dx, dz and d >= 0.
WithinDistance(dx, dz, d) == dx * dx + dz * dz <= d * d

\* The (x, z) pairs of update's double loop, in loop order.
UpdateGrid(playerChunkX, playerChunkZ, rd) ==
  LET n == 2 * (rd + 1) + 1
  IN [i \in 1..(n * n) |->
        <<playerChunkX - rd - 1 + ((i - 1) \div n),
          playerChunkZ - rd - 1 + ((i - 1) % n)>>]

InLoadRange(xz, playerChunkX, playerChunkZ, rd) ==
  WithinDistance(xz[1] - playerChunkX, xz[2] - playerChunkZ, rd + 1)

InRenderRange(xz, playerChunkX, playerChunkZ, rd) ==
  /\ InLoadRange(xz, playerChunkX, playerChunkZ, rd)
  /\ WithinDistance(xz[1] - playerChunkX, xz[2] - playerChunkZ, rd)

\* chunksToLoad and chunksToRender, in insertion order.
ChunksToLoad(playerChunkX, playerChunkZ, rd) ==
  LET grid == UpdateGrid(playerChunkX, playerChunkZ, rd)
      kept == SelectSeq(grid, LAMBDA xz : InLoadRange(xz, playerChunkX, playerChunkZ, rd))
  IN [i \in 1..Len(kept) |-> GetChunkKey(kept[i][1], kept[i][2])]

ChunksToRender(playerChunkX, playerChunkZ, rd) ==
  LET grid == UpdateGrid(playerChunkX, playerChunkZ, rd)
      kept == SelectSeq(grid, LAMBDA xz : InRenderRange(xz, playerChunkX, playerChunkZ, rd))
  IN [i \in 1..Len(kept) |-> GetChunkKey(kept[i][1], kept[i][2])]

SeqRange(s) == {s[i] : i \in 1..Len(s)}

\* The for-of loops below run over items[lo..hi].  The range is split in
\* halves, which visits the elements in the same order as the loop does; the
\* state after the first half is computed once and handed to the second
\* half (CHOOSE r \in {Second(x) : x \in {First}} : TRUE is Second(First)).

\* The keys of a Set or Map as a sequence.  Each visit of the loops over
\* loadedChunks and meshes touches its own key only, so the order of the
\* visits does not show in the resulting maps; the keys are visited in one
\* fixed order.
KeySeq ==
  LET n == 2 * KeyCoordMax + 1
  IN [i \in 1..(n * n) |->
        KeyOfCoords[<<((i - 1) \div n) - KeyCoordMax, ((i - 1) % n) - KeyCoordMax>>]]
KeysInOrder(S) == SelectSeq(KeySeq, LAMBDA k : k \in S)

\* Variant without the loadedChunks.has test: every key of chunksToLoad is
\* loaded again.  C23 tells the two apart.
RECURSIVE LoadNewChunks_ReloadsLoaded(_, _, _, _)
LoadNewChunks_ReloadsLoaded(m, toLoad, lo, hi) ==
  IF lo > hi THEN m
  ELSE IF lo = hi THEN LoadChunk(m, toLoad[lo])
  ELSE LET mid == (lo + hi) \div 2
       IN CHOOSE r \in {LoadNewChunks_ReloadsLoaded(x, toLoad, mid + 1, hi) :
                          x \in {LoadNewChunks_ReloadsLoaded(m, toLoad, lo, mid)}} : TRUE

\* "Load new chunks"
RECURSIVE LoadNewChunks(_, _, _, _)
LoadNewChunks(m, toLoad, lo, hi) ==
  IF lo > hi THEN m
  ELSE IF lo = hi
    THEN (IF toLoad[lo] \notin m.loadedChunks THEN LoadChunk(m, toLoad[lo]) ELSE m)
  ELSE LET mid == (lo + hi) \div 2
       IN CHOOSE r \in {LoadNewChunks(x, toLoad, mid + 1, hi) :
                          x \in {LoadNewChunks(m, toLoad, lo, mid)}} : TRUE

\* "Update chunk meshes"
RECURSIVE UpdateChunkMeshes(_, _, _, _)
UpdateChunkMeshes(m, toRender, lo, hi) ==
  IF lo > hi THEN m
  ELSE IF lo = hi
    THEN (IF ~m.threw /\ toRender[lo] \in m.loadedChunks /\ toRender[lo] \notin DOMAIN m.meshes
            THEN GenerateChunkMesh(m, toRender[lo]) ELSE m)
  ELSE LET mid == (lo + hi) \div 2
       IN CHOOSE r \in {UpdateChunkMeshes(x, toRender, mid + 1, hi) :
                          x \in {UpdateChunkMeshes(m, toRender, lo, mid)}} : TRUE

\* "Unload distant chunks"
RECURSIVE UnloadDistantChunks(_, _, _, _, _)
UnloadDistantChunks(m, keys, lo, hi, toLoad) ==
  IF lo > hi THEN m
  ELSE IF lo = hi
    THEN (IF keys[lo] \notin toLoad THEN UnloadChunk(m, keys[lo]) ELSE m)
  ELSE LET mid == (lo + hi) \div 2
       IN CHOOSE r \in {UnloadDistantChunks(x, keys, mid + 1, hi, toLoad) :
                          x \in {UnloadDistantChunks(m, keys, lo, mid, toLoad)}} : TRUE

\* "Remove distant meshes"
RECURSIVE RemoveDistantMeshes(_, _, _, _, _)
RemoveDistantMeshes(m, keys, lo, hi, toRender) ==
  IF lo > hi THEN m
  ELSE IF lo = hi
    THEN (IF keys[lo] \notin toRender THEN RemoveChunkMesh(m, keys[lo]) ELSE m)
  ELSE LET mid == (lo + hi) \div 2
       IN CHOOSE r \in {RemoveDistantMeshes(x, keys, mid + 1, hi, toRender) :
                          x \in {RemoveDistantMeshes(m, keys, lo, mid, toRender)}} : TRUE

\* The four loops of update, one after the other; a TypeError raised in the
\* second leaves the last two undone.
UnloadStage(m, toLoad) ==
  IF m.threw THEN m
  ELSE LET keys == KeysInOrder(m.loadedChunks)
       IN UnloadDistantChunks(m, keys, 1, Len(keys), SeqRange(toLoad))

RemoveStage(m, toRender) ==
  IF m.threw THEN m
  ELSE LET keys == KeysInOrder(DOMAIN m.meshes)
       IN RemoveDistantMeshes(m, keys, 1, Len(keys), SeqRange(toRender))

Update(m, playerX, playerZ, rd) ==
  LET playerChunkX == FloorDiv(playerX, CHUNK_SIZE)
      playerChunkZ == FloorDiv(playerZ, CHUNK_SIZE)
  IN CHOOSE m4 \in
       {RemoveStage(m3, toRender) :
          m3 \in {UnloadStage(m2, toLoad) :
            m2 \in {UpdateChunkMeshes(m1, toRender, 1, Len(toRender)) :
              m1 \in {LoadNewChunks(m, toLoad, 1, Len(toLoad)) :
                toLoad \in {ChunksToLoad(playerChunkX, playerChunkZ, rd)}},
              toRender \in {ChunksToRender(playerChunkX, playerChunkZ, rd)}},
            toLoad \in {ChunksToLoad(playerChunkX, playerChunkZ, rd)}},
          toRender \in {ChunksToRender(playerChunkX, playerChunkZ, rd)}} : TRUE

\* Variant that regenerates the chunk one step further along z than the one
\* it is asked for.  C10 tells the two apart.
UpdateNeighborMesh_OffByOneZ(m, chunkX, chunkZ) ==
  IF m.threw THEN m
  ELSE LET key == GetChunkKey(chunkX, chunkZ + 1)
       IN IF key \in DOMAIN m.meshes
            THEN GenerateChunkMesh(RemoveChunkMesh(m, key), key)
            ELSE m

\* Variant that builds the neighbour's new mesh without removing the old
\* one.  C30 tells the two apart.
UpdateNeighborMesh_NoRemoval(m, chunkX, chunkZ) ==
  IF m.threw THEN m
  ELSE LET key == GetChunkKey(chunkX, chunkZ)
       IN IF key \in DOMAIN m.meshes
            THEN GenerateChunkMesh(m, key)
            ELSE m

UpdateNeighborMesh(m, chunkX, chunkZ) ==
  IF m.threw THEN m
  ELSE LET key == GetChunkKey(chunkX, chunkZ)
       IN IF key \in DOMAIN m.meshes
            THEN GenerateChunkMesh(RemoveChunkMesh(m, key), key)
            ELSE m

\* Variant that runs the lighting pass on the edited chunk.  C18 tells the two
\* apart.
SetBlock_Relights(m, x, y, z, blockType) ==
  IF y < 0 \/ y >= CHUNK_HEIGHT THEN m
  ELSE LET chunkX == FloorDiv(x, CHUNK_SIZE)
           chunkZ == FloorDiv(z, CHUNK_SIZE)
           key == GetChunkKey(chunkX, chunkZ)
       IN IF key \notin DOMAIN m.chunks THEN m
          ELSE LET localX == LocalCoordinate(x)
                   localZ == LocalCoordinate(z)
                   m1 == [m EXCEPT !.chunks[key] = CalculateChunkLighting(
                                      ChunkSetBlock(@, localX, y, localZ, blockType)),
                                   !.events = Append(@, <<"set", key>>)]
                   m2 == GenerateChunkMesh(RemoveChunkMesh(m1, key), key)
                   m3 == IF localX = 0 THEN UpdateNeighborMesh(m2, chunkX - 1, chunkZ) ELSE m2
                   m4 == IF localX = CHUNK_SIZE - 1
                           THEN UpdateNeighborMesh(m3, chunkX + 1, chunkZ) ELSE m3
                   m5 == IF localZ = 0 THEN UpdateNeighborMesh(m4, chunkX, chunkZ - 1) ELSE m4
                   m6 == IF localZ = CHUNK_SIZE - 1
                           THEN UpdateNeighborMesh(m5, chunkX, chunkZ + 1) ELSE m5
               IN m6

\* Variant without the height check.  C6 tells the two apart.
SetBlock_NoHeightCheck(m, x, y, z, blockType) ==
  LET chunkX == FloorDiv(x, CHUNK_SIZE)
      chunkZ == FloorDiv(z, CHUNK_SIZE)
      key == GetChunkKey(chunkX, chunkZ)
  IN IF key \notin DOMAIN m.chunks THEN m
     ELSE LET localX == LocalCoordinate(x)
              localZ == LocalCoordinate(z)
              m1 == [m EXCEPT !.chunks[key] = ChunkSetBlock(@, localX, y, localZ, blockType),
                              !.events = Append(@, <<"set", key>>)]
              m2 == GenerateChunkMesh(RemoveChunkMesh(m1, key), key)
              m3 == IF localX = 0 THEN UpdateNeighborMesh(m2, chunkX - 1, chunkZ) ELSE m2
              m4 == IF localX = CHUNK_SIZE - 1
                      THEN UpdateNeighborMesh(m3, chunkX + 1, chunkZ) ELSE m3
              m5 == IF localZ = 0 THEN UpdateNeighborMesh(m4, chunkX, chunkZ - 1) ELSE m4
              m6 == IF localZ = CHUNK_SIZE - 1
                      THEN UpdateNeighborMesh(m5, chunkX, chunkZ + 1) ELSE m5
          IN m6

\* Variant whose west-border test takes in the whole west half of the chunk.
\* C9 tells the two apart.
SetBlock_WestHalfIsBorder(m, x, y, z, blockType) ==
  IF y < 0 \/ y >= CHUNK_HEIGHT THEN m
  ELSE LET chunkX == FloorDiv(x, CHUNK_SIZE)
           chunkZ == FloorDiv(z, CHUNK_SIZE)
           key == GetChunkKey(chunkX, chunkZ)
       IN IF key \notin DOMAIN m.chunks THEN m
          ELSE LET localX == LocalCoordinate(x)
                   localZ == LocalCoordinate(z)
                   m1 == [m EXCEPT !.chunks[key] = ChunkSetBlock(@, localX, y, localZ, blockType),
                                   !.events = Append(@, <<"set", key>>)]
                   m2 == GenerateChunkMesh(RemoveChunkMesh(m1, key), key)
                   m3 == IF localX < CHUNK_SIZE \div 2
                           THEN UpdateNeighborMesh(m2, chunkX - 1, chunkZ) ELSE m2
                   m4 == IF localX = CHUNK_SIZE - 1
                           THEN UpdateNeighborMesh(m3, chunkX + 1, chunkZ) ELSE m3
                   m5 == IF localZ = 0 THEN UpdateNeighborMesh(m4, chunkX, chunkZ - 1) ELSE m4
                   m6 == IF localZ = CHUNK_SIZE - 1
                           THEN UpdateNeighborMesh(m5, chunkX, chunkZ + 1) ELSE m5
               IN m6

SetBlock(m, x, y, z, blockType) ==
  IF y < 0 \/ y >= CHUNK_HEIGHT THEN m
  ELSE LET chunkX == FloorDiv(x, CHUNK_SIZE)
           chunkZ == FloorDiv(z, CHUNK_SIZE)
           key == GetChunkKey(chunkX, chunkZ)
       IN IF key \notin DOMAIN m.chunks THEN m
          ELSE LET localX == LocalCoordinate(x)
                   localZ == LocalCoordinate(z)
                   m1 == [m EXCEPT !.chunks[key] = ChunkSetBlock(@, localX, y, localZ, blockType),
                                   !.events = Append(@, <<"set", key>>)]
                   m2 == GenerateChunkMesh(RemoveChunkMesh(m1, key), key)
                   m3 == IF localX = 0 THEN UpdateNeighborMesh(m2, chunkX - 1, chunkZ) ELSE m2
                   m4 == IF localX = CHUNK_SIZE - 1
                           THEN UpdateNeighborMesh(m3, chunkX + 1, chunkZ) ELSE m3
                   m5 == IF localZ = 0 THEN UpdateNeighborMesh(m4, chunkX, chunkZ - 1) ELSE m4
                   m6 == IF localZ = CHUNK_SIZE - 1
                           THEN UpdateNeighborMesh(m5, chunkX, chunkZ + 1) ELSE m5
               IN m6

\* Variant without the upper limit.  C4 tells the two apart.
ClampRenderDistance_NoUpperLimit(distance) == Max2(MIN_RENDER_DISTANCE, distance)

ClampRenderDistance(distance) ==
  Max2(MIN_RENDER_DISTANCE, Min2(MAX_RENDER_DISTANCE, distance))

\* destroy: every mesh leaves the scene and is disposed, then the maps are cleared.
RECURSIVE DestroyMeshes(_, _, _, _)
DestroyMeshes(m, keys, lo, hi) ==
  IF lo > hi THEN m
  ELSE IF lo = hi
    THEN [m EXCEPT !.scene = @ (-) SetToBag({keys[lo]}),
                   !.events = Append(@, <<"remove", keys[lo]>>)]
  ELSE LET mid == (lo + hi) \div 2
       IN CHOOSE r \in {DestroyMeshes(x, keys, mid + 1, hi) :
                          x \in {DestroyMeshes(m, keys, lo, mid)}} : TRUE

Destroy(m) ==
  LET meshKeys == KeysInOrder(DOMAIN m.meshes)
      m1 == DestroyMeshes(m, meshKeys, 1, Len(meshKeys))
  IN [m1 EXCEPT !.meshes = EmptyFn, !.chunks = EmptyFn, !.loadedChunks = {},
                !.events = Append(@, <<"clear", "">>)]

-----------------------------------------------------------------------------
(* The state machine                                                       *)

Current == Manager(chunks, loadedChunks, meshes, scene)

Install(m, op, args) ==
  /\ chunks' = m.chunks
  /\ loadedChunks' = m.loadedChunks
  /\ meshes' = m.meshes
  /\ scene' = m.scene
  /\ last' = [op |-> op, args |-> args, events |-> m.events, threw |-> m.threw]

Init ==
  /\ chunks = EmptyFn
  /\ loadedChunks = {}
  /\ meshes = EmptyFn
  /\ scene = EmptyBag
  /\ renderDistance = INITIAL_RENDER_DISTANCE
  /\ edits = 0
  /\ timeOfDay = INITIAL_TIME_OF_DAY
  /\ last = [op |-> "init", args |-> <<>>, events |-> <<>>, threw |-> FALSE]

\* VoxelEngine.animate: chunkManager.update(camera.position)
UpdateAct(p) ==
  /\ \E m \in {Update(Current, p[1], p[2], renderDistance)} : Install(m, "update", p)
  /\ UNCHANGED <<renderDistance, edits, timeOfDay>>

\* The chunk and height setBlock would write to.
Reaches(x, y, z) ==
  /\ y >= 0 /\ y < CHUNK_HEIGHT
  /\ GetChunkKey(FloorDiv(x, CHUNK_SIZE), FloorDiv(z, CHUNK_SIZE)) \in DOMAIN chunks

\* RaycastSystem's onBlockBreak / onBlockPlace: chunkManager.setBlock
SetBlockAct(x, y, z, blockType) ==
  /\ Reaches(x, y, z) => edits < MaxEdits
  /\ \E m \in {SetBlock(Current, x, y, z, blockType)} :
       Install(m, "setBlock", <<x, y, z, blockType>>)
  /\ edits' = IF Reaches(x, y, z) THEN edits + 1 ELSE edits
  /\ UNCHANGED <<renderDistance, timeOfDay>>

SetRenderDistanceAct(distance) ==
  /\ renderDistance' = ClampRenderDistance(distance)
  /\ last' = [op |-> "setRenderDistance", args |-> <<distance>>,
              events |-> <<>>, threw |-> FALSE]
  /\ UNCHANGED <<chunks, loadedChunks, meshes, scene, edits, timeOfDay>>

\* VoxelEngine's key handler: Equal / NumpadAdd and Minus / NumpadSubtract.
RenderDistanceKey(step) == SetRenderDistanceAct(renderDistance + step)

DestroyAct ==
  /\ \E m \in {Destroy(Current)} : Install(m, "destroy", <<>>)
  /\ UNCHANGED <<renderDistance, edits, timeOfDay>>

Next ==
  \/ \E p \in PlayerPositions : UpdateAct(p)
  \/ \E e \in EditInputs : SetBlockAct(e[1], e[2], e[3], e[4])
  \/ \E d \in RequestedDistances : SetRenderDistanceAct(d)
  \/ \E step \in {-1, 1} : RenderDistanceKey(step)
  \/ DestroyAct

Spec == Init /\ [][Next]_vars

-----------------------------------------------------------------------------
(* The manager under two edits per behaviour, on a few edit inputs.        *)

\* setBlock calls that reach a loaded chunk with y in range, per behaviour.
MaxFaultEdits == 2

\* A block placed inside chunk (-1, 1), and the generated block of chunk
\* (-3, 0) broken, which leaves that chunk without a non-Air cell.
FaultEdits == {<<-9, 0, 23, STONE>>, <<-33, 0, 0, AIR>>}

\* RaycastSystem's onBlockBreak / onBlockPlace: chunkManager.setBlock
FaultEditAct(x, y, z, blockType) ==
  /\ Reaches(x, y, z) => edits < MaxFaultEdits
  /\ \E m \in {SetBlock(Current, x, y, z, blockType)} :
       Install(m, "setBlock", <<x, y, z, blockType>>)
  /\ edits' = IF Reaches(x, y, z) THEN edits + 1 ELSE edits
  /\ UNCHANGED <<renderDistance, timeOfDay>>

TwoEditNext ==
  \/ \E p \in PlayerPositions : UpdateAct(p)
  \/ \E e \in FaultEdits : FaultEditAct(e[1], e[2], e[3], e[4])
  \/ \E step \in {-1, 1} : RenderDistanceKey(step)
  \/ DestroyAct

TwoEditSpec == Init /\ [][TwoEditNext]_vars

-----------------------------------------------------------------------------
(* MeshBuilder.buildChunkMesh on its own: a world is laid out around one   *)
(* cell of chunk (0, 0) and the geometry of one of its chunks is built.    *)

\* The cell, in world coordinates: inside the chunk, on its west edge, on
\* its south-east corner, at the bottom and at the top of the world.
CellPositions == {<<7, 1, 7>>, <<0, 1, 7>>, <<15, 70, 15>>, <<7, 0, 7>>, <<7, 255, 7>>}

\* The kind of the cell and of its six neighbours (by face index): a Stone
\* cell among Stone with at most two Air neighbours, and every kind of cell
\* with one neighbour of every kind and Air elsewhere.
Neighbourhoods ==
  {<<STONE, [f \in FaceIndexes |-> IF f \in A THEN AIR ELSE STONE]>> :
      A \in {B \in SUBSET FaceIndexes : Cardinality(B) <= 2}}
  \cup {<<k, [f \in FaceIndexes |-> IF f = g THEN n ELSE AIR]>> :
          k \in BlockType \ {AIR}, g \in FaceIndexes, n \in BlockType}

\* How far above the cell a further Stone block may stand in its column.
TowerGap == 60

\* The blocks of a world as <<x, y, z, kind>>: the cell, its neighbours and,
\* if asked for, the block TowerGap above the cell.
WorldCells(pos, hood, tower) ==
  {<<pos[1], pos[2], pos[3], hood[1]>>}
  \cup {<<pos[1] + FACES[f + 1][1], pos[2] + FACES[f + 1][2], pos[3] + FACES[f + 1][3],
          hood[2][f]>> : f \in FaceIndexes}
  \cup (IF tower THEN {<<pos[1], pos[2] + TowerGap, pos[3], STONE>>} ELSE {})

\* Chunk (chunkX, chunkZ) holding those of the cells that fall in it.
WorldChunk(chunkX, chunkZ, cells) ==
  LET mine == {c \in cells :
                 /\ FloorDiv(c[1], CHUNK_SIZE) = chunkX
                 /\ FloorDiv(c[3], CHUNK_SIZE) = chunkZ
                 /\ c[2] >= 0 /\ c[2] < CHUNK_HEIGHT
                 /\ c[4] # AIR}
      IndexOf(c) == ChunkGetIndex(LocalCoordinate(c[1]), c[2], LocalCoordinate(c[3]))
  IN [NewChunk(chunkX, chunkZ) EXCEPT
        !.blocks = [i \in {IndexOf(c) : c \in mine} |->
                      (CHOOSE c \in mine : IndexOf(c) = i)[4]]]

\* Chunk (0, 0) alone, or with its four neighbours loaded.
WorldKeys(withNeighbours) ==
  IF withNeighbours THEN {<<0, 0>>, <<-1, 0>>, <<1, 0>>, <<0, -1>>, <<0, 1>>}
  ELSE {<<0, 0>>}

World(pos, hood, tower, withNeighbours) ==
  [key \in {GetChunkKey(q[1], q[2]) : q \in WorldKeys(withNeighbours)} |->
     WorldChunk(ParseChunkKey(key)[1], ParseChunkKey(key)[2], WorldCells(pos, hood, tower))]

MeshInit ==
  \E pos \in CellPositions, hood \in Neighbourhoods, tower \in BOOLEAN,
     withNeighbours \in BOOLEAN :
    /\ chunks = World(pos, hood, tower, withNeighbours)
    /\ loadedChunks = DOMAIN chunks
    /\ meshes = EmptyFn
    /\ scene = EmptyBag
    /\ renderDistance = INITIAL_RENDER_DISTANCE
    /\ edits = 0
    /\ timeOfDay = INITIAL_TIME_OF_DAY
    /\ last = [op |-> "world", args |-> <<pos, hood, tower, withNeighbours>>,
               events |-> <<>>, threw |-> FALSE]

\* meshBuilder.buildChunkMesh(chunk, chunkManager); the geometry it returns
\* is kept under the chunk's key.
BuildChunkMeshAct(key) ==
  /\ key \in DOMAIN chunks
  /\ meshes' = (key :> [geometry |-> BuildChunkMesh(chunks[key], chunks),
                        position |-> <<chunks[key].x * CHUNK_SIZE, 0,
                                       chunks[key].z * CHUNK_SIZE>>])
  /\ last' = [last EXCEPT !.op = "buildChunkMesh"]
  /\ UNCHANGED <<chunks, loadedChunks, scene, renderDistance, edits, timeOfDay>>

MeshNext == \E key \in {"0_0", "-1_0", "1_0"} : BuildChunkMeshAct(key)

MeshSpec == MeshInit /\ [][MeshNext]_vars

-----------------------------------------------------------------------------
(* Chunk on its own: one chunk, written through Chunk.setBlock and         *)
(* Chunk.setLightLevel at coordinates inside and outside its bounds, and   *)
(* lit by LightingSystem.calculateChunkLighting.                           *)

\* Writes per behaviour.
MaxWrites == 2

\* Coordinates (x, y, z) handed to the chunk: cells of the chunk, and
\* coordinates off each of its six sides.  Through the linear index,
\* (16, 0, 0) would fall on cell (0, 0, 1) and (-1, 0, 1) on cell (15, 0, 0).
\* Cells (0, 0, 0), (0, 1, 0) and (0, 3, 0) share a column.
ChunkCoordinates ==
  {<<0, 0, 0>>, <<0, 0, 1>>, <<15, 0, 0>>, <<15, 255, 15>>,
   <<-1, 0, 1>>, <<16, 0, 0>>, <<0, -1, 0>>, <<0, 256, 0>>, <<0, 0, -1>>, <<0, 0, 16>>,
   <<16, 255, 15>>, <<-1, -1, -1>>, <<0, 1, 0>>, <<0, 3, 0>>}

\* Levels handed to setLightLevel.
LightLevels == {-1, 0, 7, 15, 16, 300}

ChunkInit ==
  /\ chunks = ("0_0" :> NewChunk(0, 0))
  /\ loadedChunks = {"0_0"}
  /\ meshes = EmptyFn
  /\ scene = EmptyBag
  /\ renderDistance = INITIAL_RENDER_DISTANCE
  /\ edits = 0
  /\ timeOfDay = INITIAL_TIME_OF_DAY
  /\ last = [op |-> "new Chunk", args |-> <<0, 0>>, events |-> <<>>, threw |-> FALSE]

ChunkSetBlockAct(x, y, z, blockType) ==
  /\ edits < MaxWrites
  /\ chunks' = [chunks EXCEPT !["0_0"] = ChunkSetBlock(@, x, y, z, blockType)]
  /\ edits' = edits + 1
  /\ last' = [op |-> "Chunk.setBlock", args |-> <<x, y, z, blockType>>,
              events |-> <<>>, threw |-> FALSE]
  /\ UNCHANGED <<loadedChunks, meshes, scene, renderDistance, timeOfDay>>

ChunkSetLightLevelAct(x, y, z, level) ==
  /\ edits < MaxWrites
  /\ chunks' = [chunks EXCEPT !["0_0"] = ChunkSetLightLevel(@, x, y, z, level)]
  /\ edits' = edits + 1
  /\ last' = [op |-> "Chunk.setLightLevel", args |-> <<x, y, z, level>>,
              events |-> <<>>, threw |-> FALSE]
  /\ UNCHANGED <<loadedChunks, meshes, scene, renderDistance, timeOfDay>>

CalculateChunkLightingAct ==
  /\ chunks' = [chunks EXCEPT !["0_0"] = CalculateChunkLighting(@)]
  /\ last' = [op |-> "calculateChunkLighting", args |-> <<>>,
              events |-> <<>>, threw |-> FALSE]
  /\ UNCHANGED <<loadedChunks, meshes, scene, renderDistance, edits, timeOfDay>>

ChunkNext ==
  \/ \E c \in ChunkCoordinates, k \in EditKinds : ChunkSetBlockAct(c[1], c[2], c[3], k)
  \/ \E c \in ChunkCoordinates, level \in LightLevels :
       ChunkSetLightLevelAct(c[1], c[2], c[3], level)
  \/ CalculateChunkLightingAct

ChunkSpec == ChunkInit /\ [][ChunkNext]_vars

-----------------------------------------------------------------------------
(* WorldGenerator in full, on the columns GenColumns of chunk (0, 0), run  *)
(* twice on the same seed.                                                 *)
(*                                                                         *)
(* NoiseGenerator builds its permutation from the seed in the constructor  *)
(* and never writes it again; noise and noise3D read it and their          *)
(* arguments only.  A seed is therefore kept as the field it yields: the   *)
(* value of noise at each world column, in thousandths, and the set of     *)
(* world cells where noise3D exceeds CAVE_THRESHOLD.  At world column      *)
(* (0, 0) every octave samples noise(0, 0), where both fractional offsets  *)
(* are 0 and every grad term is 0: the value there is 0 for every seed.    *)
(* Math.random is an input: each execution gets its own draws.             *)

TERRAIN_HEIGHT == 80
TERRAIN_BASE == 32
WATER_LEVEL == 60
ORE_BELOW == 50

\* Local columns (x, z) of the chunk that generateChunk's loops visit here, in
\* the order of the loops.
GenColumns == << <<0, 0>>, <<1, 1>> >>

\* Values of noise, in thousandths, taken the same at the six octaves.  They
\* yield the surface heights -7, 48, 58, 59, 60, 65, 66 and 72.
NoiseChoices == {-1000, -300, -170, -160, -150, -80, -70, 0}

\* World cells at which noise3D may exceed CAVE_THRESHOLD.
CaveCandidates == {<<0, 20, 0>>, <<0, 0, 0>>, <<1, 10, 1>>}

\* Cells whose ore draw may fall below 0.01.
OreCandidates == {<<0, 0, 0>>, <<1, 10, 1>>}

\* Tree draws of a column: no tree, or a trunk height with the leaf draws
\* all above 0.2 or all below.
LeafOffsets == {<<dx, dy, dz>> \in (-2..2) \X (-1..1) \X (-2..2) : TRUE}
TreeDraws == {<<0, {}>>, <<4, LeafOffsets>>, <<6, {}>>}

\* The draws of one execution.
RandomDraws ==
  {[ore |-> o, trees |-> (<<0, 0>> :> t) @@ (<<1, 1>> :> <<0, {}>>)] :
     o \in SUBSET OreCandidates, t \in TreeDraws}
  \cup {[ore |-> {}, trees |-> (<<0, 0>> :> <<0, {}>>) @@ (<<1, 1>> :> <<4, LeafOffsets>>)]}

\* generateHeightMap for one column: six octaves with amplitudes 1, 1/2, ...,
\* 1/32 sum to value * 63/32; (sum + 1) * 0.5 * 80 + 32, floored.
HeightAt(field, wx, wz) ==
  LET sum32000 == field[<<wx, wz>>] * 63
  IN FloorDiv((sum32000 + 32000) * (TERRAIN_HEIGHT \div 2) + TERRAIN_BASE * 32000, 32000)

\* ColumnBlock with the cave decided by the cell's random draw instead of
\* noise3D.
ColumnBlock_RandomCaves(y, surfaceHeight, carved, oreDrawn) ==
  IF y <= surfaceHeight
    THEN LET layer == IF y < surfaceHeight - 3 THEN STONE
                      ELSE IF y < surfaceHeight THEN DIRT
                      ELSE IF surfaceHeight > WATER_LEVEL + 5 THEN GRASS
                      ELSE IF surfaceHeight > WATER_LEVEL - 2 THEN SAND
                      ELSE DIRT
             caved == IF y > 5 /\ y < surfaceHeight - 5 /\ oreDrawn THEN AIR ELSE layer
         IN IF caved = STONE /\ oreDrawn /\ y < ORE_BELOW THEN COBBLESTONE ELSE caved
  ELSE IF y <= WATER_LEVEL /\ surfaceHeight < WATER_LEVEL THEN WATER
  ELSE AIR

\* ColumnBlock with caves carved down to y = 0.
ColumnBlock_CavesToTheFloor(y, surfaceHeight, carved, oreDrawn) ==
  IF y <= surfaceHeight
    THEN LET layer == IF y < surfaceHeight - 3 THEN STONE
                      ELSE IF y < surfaceHeight THEN DIRT
                      ELSE IF surfaceHeight > WATER_LEVEL + 5 THEN GRASS
                      ELSE IF surfaceHeight > WATER_LEVEL - 2 THEN SAND
                      ELSE DIRT
             caved == IF y < surfaceHeight - 5 /\ carved THEN AIR ELSE layer
         IN IF caved = STONE /\ oreDrawn /\ y < ORE_BELOW THEN COBBLESTONE ELSE caved
  ELSE IF y <= WATER_LEVEL /\ surfaceHeight < WATER_LEVEL THEN WATER
  ELSE AIR

\* ColumnBlock with Grass from surface height 67 instead of 66.
ColumnBlock_GrassOneHigher(y, surfaceHeight, carved, oreDrawn) ==
  IF y <= surfaceHeight
    THEN LET layer == IF y < surfaceHeight - 3 THEN STONE
                      ELSE IF y < surfaceHeight THEN DIRT
                      ELSE IF surfaceHeight > WATER_LEVEL + 6 THEN GRASS
                      ELSE IF surfaceHeight > WATER_LEVEL - 2 THEN SAND
                      ELSE DIRT
             caved == IF y > 5 /\ y < surfaceHeight - 5 /\ carved THEN AIR ELSE layer
         IN IF caved = STONE /\ oreDrawn /\ y < ORE_BELOW THEN COBBLESTONE ELSE caved
  ELSE IF y <= WATER_LEVEL /\ surfaceHeight < WATER_LEVEL THEN WATER
  ELSE AIR

\* The block generateColumn writes at height y.
ColumnBlock(y, surfaceHeight, carved, oreDrawn) ==
  IF y <= surfaceHeight
    THEN LET layer == IF y < surfaceHeight - 3 THEN STONE
                      ELSE IF y < surfaceHeight THEN DIRT
                      ELSE IF surfaceHeight > WATER_LEVEL + 5 THEN GRASS
                      ELSE IF surfaceHeight > WATER_LEVEL - 2 THEN SAND
                      ELSE DIRT
             caved == IF y > 5 /\ y < surfaceHeight - 5 /\ carved THEN AIR ELSE layer
         IN IF caved = STONE /\ oreDrawn /\ y < ORE_BELOW THEN COBBLESTONE ELSE caved
  ELSE IF y <= WATER_LEVEL /\ surfaceHeight < WATER_LEVEL THEN WATER
  ELSE AIR

\* generateTree: the trunk, then the leaves where the chunk holds Air.
GenerateTree(c, x, z, baseY, treeHeight, keptLeaves) ==
  LET trunk == {ChunkGetIndex(x, baseY + y, z) :
                  y \in {y1 \in 0..(treeHeight - 1) : baseY + y1 < CHUNK_HEIGHT}}
      withTrunk == [c EXCEPT !.blocks =
                      [i \in DOMAIN c.blocks \cup trunk |->
                         IF i \in trunk THEN WOOD ELSE c.blocks[i]]]
      leavesY == baseY + treeHeight
      leaves == {ChunkGetIndex(x + d[1], leavesY + d[2], z + d[3]) :
                   d \in {e \in keptLeaves :
                            /\ x + e[1] >= 0 /\ x + e[1] < CHUNK_SIZE
                            /\ z + e[3] >= 0 /\ z + e[3] < CHUNK_SIZE
                            /\ leavesY + e[2] < CHUNK_HEIGHT
                            /\ (IF e[1] < 0 THEN 0 - e[1] ELSE e[1])
                                 + (IF e[3] < 0 THEN 0 - e[3] ELSE e[3])
                                 + (IF e[2] < 0 THEN 0 - e[2] ELSE e[2]) <= 3
                            /\ ChunkGetBlock(withTrunk, x + e[1], leavesY + e[2], z + e[3]) = AIR}}
  IN [withTrunk EXCEPT !.blocks =
        [i \in DOMAIN withTrunk.blocks \cup leaves |->
           IF i \in leaves THEN LEAVES ELSE withTrunk.blocks[i]]]

\* generateColumn: every cell of the column is written, then the tree.
GenerateColumn(c, x, z, surfaceHeight, caves, draws) ==
  LET worldX == c.x * CHUNK_SIZE + x
      worldZ == c.z * CHUNK_SIZE + z
      Written(y) == ColumnBlock(y, surfaceHeight, <<worldX, y, worldZ>> \in caves,
                                <<x, y, z>> \in draws.ore)
      column == {ChunkGetIndex(x, y, z) : y \in 0..(CHUNK_HEIGHT - 1)}
      filled == {ChunkGetIndex(x, y, z) : y \in {y1 \in 0..(CHUNK_HEIGHT - 1) : Written(y1) # AIR}}
      written == [c EXCEPT !.blocks =
                    [i \in (DOMAIN c.blocks \ column) \cup filled |->
                       IF i \in filled THEN Written(IndexY(i)) ELSE c.blocks[i]]]
      tree == draws.trees[<<x, z>>]
  IN IF tree[1] > 0 /\ surfaceHeight > WATER_LEVEL + 5
       THEN GenerateTree(written, x, z, surfaceHeight + 1, tree[1], tree[2])
       ELSE written

\* generateChunk over GenColumns[lo..], one column after the other.
RECURSIVE GenerateColumns(_, _, _, _, _)
GenerateColumns(c, lo, field, caves, draws) ==
  IF lo > Len(GenColumns) THEN c
  ELSE LET x == GenColumns[lo][1]
           z == GenColumns[lo][2]
           height == HeightAt(field, c.x * CHUNK_SIZE + x, c.z * CHUNK_SIZE + z)
       IN CHOOSE r \in {GenerateColumns(c1, lo + 1, field, caves, draws) :
                          c1 \in {GenerateColumn(c, x, z, height, caves, draws)}} : TRUE

WorldGeneratorGenerateChunk(c, field, caves, draws) ==
  GenerateColumns(c, 1, field, caves, draws)

\* The two executions.
Executions == {"first", "second"}

\* new WorldGenerator(seed): the field of the seed.
GenInit ==
  \E base \in NoiseChoices, caves \in SUBSET CaveCandidates :
    /\ chunks = EmptyFn
    /\ loadedChunks = {}
    /\ meshes = EmptyFn
    /\ scene = EmptyBag
    /\ renderDistance = INITIAL_RENDER_DISTANCE
    /\ edits = 0
    /\ timeOfDay = INITIAL_TIME_OF_DAY
    /\ last = [op |-> "new WorldGenerator",
               args |-> <<(<<0, 0>> :> 0) @@ (<<1, 1>> :> base), caves>>,
               events |-> <<>>, threw |-> FALSE]

\* One execution of generateChunk on a new Chunk(0, 0) with its own draws.
GenerateChunkAct(execution, draws) ==
  /\ execution \notin DOMAIN chunks
  /\ chunks' = (execution :>
                  WorldGeneratorGenerateChunk(NewChunk(0, 0), last.args[1], last.args[2], draws))
                @@ chunks
  /\ last' = [last EXCEPT !.op = "generateChunk",
                          !.events = Append(@, <<execution, draws>>)]
  /\ UNCHANGED <<loadedChunks, meshes, scene, renderDistance, edits, timeOfDay>>

GenNext == \E execution \in Executions, draws \in RandomDraws : GenerateChunkAct(execution, draws)

GenSpec == GenInit /\ [][GenNext]_vars

-----------------------------------------------------------------------------
(* LightingSystem's day/night clock on its own.                            *)

\* update and setTimeOfDay calls per behaviour.
MaxTicks == 3

\* deltaTime handed to update, in ms: a first frame, ordinary frames, a
\* quarter and three quarters of a day, a whole day, and two and a half days
\* (a tab left in the background).
DeltaTimes == {0, 16, 17, 30000, 90000, 120000, 300000}

\* Times handed to setTimeOfDay, in ms of the day: -0.5, 0, 0.5, 1 and 1.5.
RequestedTimes == {-60000, 0, 60000, 120000, 180000}

\* timeOfDay += deltaTime / (DAY_LENGTH * 1000); if (timeOfDay > 1) timeOfDay -= 1
LightingUpdate(time, deltaTime) ==
  LET advanced == time + deltaTime
  IN IF advanced > DAY_MS THEN advanced - DAY_MS ELSE advanced

\* Math.max(0, Math.min(1, time))
SetTimeOfDay(time) == Max2(0, Min2(DAY_MS, time))

LightInit ==
  /\ chunks = EmptyFn
  /\ loadedChunks = {}
  /\ meshes = EmptyFn
  /\ scene = EmptyBag
  /\ renderDistance = INITIAL_RENDER_DISTANCE
  /\ edits = 0
  /\ timeOfDay = INITIAL_TIME_OF_DAY
  /\ last = [op |-> "new LightingSystem", args |-> <<>>, events |-> <<>>, threw |-> FALSE]

\* VoxelEngine.update: lightingSystem.update(deltaTime)
LightingUpdateAct(deltaTime) ==
  /\ edits < MaxTicks
  /\ timeOfDay' = LightingUpdate(timeOfDay, deltaTime)
  /\ edits' = edits + 1
  /\ last' = [op |-> "LightingSystem.update", args |-> <<deltaTime>>,
              events |-> <<>>, threw |-> FALSE]
  /\ UNCHANGED <<chunks, loadedChunks, meshes, scene, renderDistance>>

SetTimeOfDayAct(time) ==
  /\ edits < MaxTicks
  /\ timeOfDay' = SetTimeOfDay(time)
  /\ edits' = edits + 1
  /\ last' = [op |-> "setTimeOfDay", args |-> <<time>>, events |-> <<>>, threw |-> FALSE]
  /\ UNCHANGED <<chunks, loadedChunks, meshes, scene, renderDistance>>

LightNext ==
  \/ \E deltaTime \in DeltaTimes : LightingUpdateAct(deltaTime)
  \/ \E time \in RequestedTimes : SetTimeOfDayAct(time)

LightSpec == LightInit /\ [][LightNext]_vars

-----------------------------------------------------------------------------
(* Vocabulary of the properties                                            *)

\* World coordinates at which getBlock is observed.
ProbeXs == {-17, -16, -1, 0, 7, 15, 16, 192}
ProbeYs == {-1, 0, 1, 255, 256}
ProbeZs == {-16, -1, 0, 7, 15}

\* floor(w / 16) and w - 16 * floor(w / 16), stated without the code's operators.
OwnerOf(w) == CHOOSE q \in (0 - 2 * KeyCoordMax)..(2 * KeyCoordMax) :
                 CHUNK_SIZE * q <= w /\ w < CHUNK_SIZE * (q + 1)
OffsetOf(w) == w - CHUNK_SIZE * OwnerOf(w)
OwnerKey(x, z) == GetChunkKey(OwnerOf(x), OwnerOf(z))

\* The keys within Euclidean distance d (chunk units) of the player's chunk.
KeysWithin(p, d) ==
  {KeyOfCoords[c] : c \in {q \in KeyCoords :
       (q[1] - OwnerOf(p[1])) * (q[1] - OwnerOf(p[1]))
         + (q[2] - OwnerOf(p[2])) * (q[2] - OwnerOf(p[2])) <= d * d}}

\* What the last handler did.
EventsOf(kind) == {last.events[i][2] : i \in {j \in 1..Len(last.events) : last.events[j][1] = kind}}
Regenerated(events, key) ==
  \E i, j \in 1..Len(events) :
     i < j /\ events[i] = <<"remove", key>> /\ events[j] = <<"extract", key>>

\* The last call was a setBlock that reached a loaded chunk with y in range.
LastEditReached ==
  /\ last.op = "setBlock"
  /\ last.args[2] >= 0 /\ last.args[2] < CHUNK_HEIGHT
  /\ OwnerKey(last.args[1], last.args[3]) \in DOMAIN chunks

-----------------------------------------------------------------------------
(* C1: in every reachable state, every key that has a mesh in the rendered *)
(* map also has a Chunk in the loaded map.                                 *)
C1_RenderedSubsetOfLoaded ==
  /\ DOMAIN meshes \subseteq DOMAIN chunks
  /\ DOMAIN meshes \subseteq loadedChunks

\* An update has evicted chunks and meshes, and both rendered and
\* loaded-but-not-rendered keys exist.
C1_Witness ==
  /\ last.op = "update"
  /\ "unload" \in {last.events[i][1] : i \in 1..Len(last.events)}
  /\ DOMAIN meshes # {}
  /\ loadedChunks \ DOMAIN meshes # {}

(* C2: immediately after update(playerPosition) returns, the loaded set is *)
(* exactly the set of keys within renderDistance + 1 of the player's chunk.*)
C2_LoadedIsDesiredLoad ==
  last.op = "update" =>
    /\ loadedChunks = KeysWithin(last.args, renderDistance + 1)
    /\ DOMAIN chunks = KeysWithin(last.args, renderDistance + 1)

(* C3: immediately after update returns, every key within renderDistance   *)
(* of the player's chunk has a mesh in the rendered map.                   *)
C3_DesiredRenderIsRendered ==
  last.op = "update" => KeysWithin(last.args, renderDistance) \subseteq DOMAIN meshes

(* C4: after any sequence of setRenderDistance(d) calls, getRenderDistance *)
(* is in [2,4]; it is d when 2 <= d <= 4, 2 when d < 2 and 4 when d > 4,   *)
(* and the call never faults.                                              *)
C4_RenderDistanceClamped ==
  /\ renderDistance \in 2..4
  /\ last.op = "setRenderDistance" =>
       /\ ~last.threw
       /\ renderDistance = IF last.args[1] < 2 THEN 2
                           ELSE IF last.args[1] > 4 THEN 4 ELSE last.args[1]

\* An out-of-range request above the maximum has been clamped.
C4_Witness ==
  /\ last.op = "setRenderDistance"
  /\ last.args[1] = 6
  /\ renderDistance = 4

(* C5: for all integer world coordinates, getBlock returns Air when y is   *)
(* outside [0,256) or the owning chunk (floor(x/16), floor(z/16)) is not   *)
(* loaded; otherwise the cell (x - 16*floor(x/16), y, z - 16*floor(z/16))  *)
(* of that chunk; the local coordinates computed by the code lie in [0,16) *)
(* and satisfy chunkX*16 + localX = x.                                     *)
C5_GetBlockResolvesOwner ==
  \A x \in ProbeXs, y \in ProbeYs, z \in ProbeZs :
    /\ LocalCoordinate(x) \in 0..(CHUNK_SIZE - 1)
    /\ FloorDiv(x, CHUNK_SIZE) * CHUNK_SIZE + LocalCoordinate(x) = x
    /\ LocalCoordinate(z) \in 0..(CHUNK_SIZE - 1)
    /\ FloorDiv(z, CHUNK_SIZE) * CHUNK_SIZE + LocalCoordinate(z) = z
    /\ ManagerGetBlock(chunks, x, y, z) =
         IF y < 0 \/ y >= 256 \/ OwnerKey(x, z) \notin DOMAIN chunks THEN AIR
         ELSE LET cell == y * 256 + OffsetOf(z) * 16 + OffsetOf(x)
                  stored == chunks[OwnerKey(x, z)].blocks
              IN IF cell \in DOMAIN stored THEN stored[cell] ELSE AIR

\* The generated block of chunk (-1, 0) is read at the negative world x = -1,
\* and a block placed by an edit is read at a negative z.
C5_Witness ==
  /\ ManagerGetBlock(chunks, -1, 0, 0) = STONE
  /\ ManagerGetBlock(chunks, 7, 0, -1) = STONE
  /\ ManagerGetBlock(chunks, -17, 0, 0) = AIR

\* The arguments of the step's setBlock call, and what they address.
EditOwner(args) == OwnerKey(args[1], args[3])
EditLocalX(args) == OffsetOf(args[1])
EditLocalZ(args) == OffsetOf(args[3])

\* The adjacent chunks across the chunk boundaries the addressed cell lies on.
AcrossBoundaries(args) ==
  (IF EditLocalX(args) = 0
     THEN {GetChunkKey(OwnerOf(args[1]) - 1, OwnerOf(args[3]))} ELSE {})
  \cup (IF EditLocalX(args) = CHUNK_SIZE - 1
     THEN {GetChunkKey(OwnerOf(args[1]) + 1, OwnerOf(args[3]))} ELSE {})
  \cup (IF EditLocalZ(args) = 0
     THEN {GetChunkKey(OwnerOf(args[1]), OwnerOf(args[3]) - 1)} ELSE {})
  \cup (IF EditLocalZ(args) = CHUNK_SIZE - 1
     THEN {GetChunkKey(OwnerOf(args[1]), OwnerOf(args[3]) + 1)} ELSE {})

\* Surface extraction ran for key during the handler, and what the rendered
\* map holds for key is what extraction yields from the block data chs.
RebuiltIn(chs, ms, events, key) ==
  /\ <<"extract", key>> \in SeqRange(events)
  /\ IF key \in DOMAIN ms
       THEN ms[key].geometry = BuildChunkMesh(chs[key], chs)
       ELSE BuildChunkMesh(chs[key], chs) = {}

(* C6: a setBlock with y < 0 or y >= 256, or addressed to a chunk that is  *)
(* not loaded, changes nothing: the chunk map (blocks and light levels),   *)
(* the loaded set, the rendered map and the scene are as before, and no    *)
(* mesh is removed or rebuilt.                                             *)
C6_UnreachedEditIsNoOp ==
  [][(last'.op = "setBlock" /\ ~Reaches(last'.args[1], last'.args[2], last'.args[3]))
       => /\ UNCHANGED <<chunks, loadedChunks, meshes, scene>>
          /\ last'.events = <<>>
          /\ ~last'.threw]_vars

\* A setBlock above the world's height was addressed to a loaded, rendered chunk.
C6_Witness ==
  /\ last.op = "setBlock"
  /\ last.args = <<0, 256, 0, AIR>>
  /\ "0_0" \in DOMAIN meshes
  /\ ManagerGetBlock(chunks, 0, 0, 0) = STONE

(* C7: after a setBlock(x,y,z,k) that addresses a loaded chunk with        *)
(* 0 <= y < 256, getBlock(x,y,z) is k and getBlock at every other          *)
(* coordinate is what it was before the call.                              *)
C7_SetThenGet ==
  [][(last'.op = "setBlock" /\ Reaches(last'.args[1], last'.args[2], last'.args[3]))
       => \A x \in ProbeXs, y \in ProbeYs, z \in ProbeZs :
            ManagerGetBlock(chunks', x, y, z) =
              IF <<x, y, z>> = <<last'.args[1], last'.args[2], last'.args[3]>>
                THEN last'.args[4]
                ELSE ManagerGetBlock(chunks, x, y, z)]_vars

\* A block was placed at a negative world x and is read back, next to the
\* generated block of the same chunk.
C7_Witness ==
  /\ last.op = "setBlock"
  /\ last.args = <<-1, 0, 7, STONE>>
  /\ ManagerGetBlock(chunks, -1, 0, 7) = STONE
  /\ ManagerGetBlock(chunks, -1, 0, 0) = STONE
  /\ ManagerGetBlock(chunks, -1, 0, 15) = AIR

(* C8: a setBlock at a cell with local x = 0 of a loaded chunk (cx,cz)     *)
(* rebuilds the mesh of (cx,cz) and removes and rebuilds the mesh of       *)
(* (cx-1,cz) from the current block data; likewise local x = 15 and        *)
(* (cx+1,cz), local z = 0 and (cx,cz-1), local z = 15 and (cx,cz+1).  A    *)
(* neighbour is held to this when it had a mesh before the call.           *)
C8_BoundaryEditRegeneratesNeighbour ==
  [][(/\ last'.op = "setBlock"
      /\ Reaches(last'.args[1], last'.args[2], last'.args[3])
      /\ AcrossBoundaries(last'.args) # {})
       => /\ RebuiltIn(chunks', meshes', last'.events, EditOwner(last'.args))
          /\ \A key \in AcrossBoundaries(last'.args) \cap DOMAIN meshes :
               /\ Regenerated(last'.events, key)
               /\ RebuiltIn(chunks', meshes', last'.events, key)]_vars

(* C9: a setBlock at an interior cell (local x and z in 1..14) of a loaded *)
(* chunk regenerates the mesh of that chunk only: no other key's mesh is   *)
(* removed, rebuilt or added, and no other chunk's data changes.           *)
C9_InteriorEditIsLocal ==
  [][(/\ last'.op = "setBlock"
      /\ Reaches(last'.args[1], last'.args[2], last'.args[3])
      /\ EditLocalX(last'.args) \in 1..(CHUNK_SIZE - 2)
      /\ EditLocalZ(last'.args) \in 1..(CHUNK_SIZE - 2))
       => /\ RebuiltIn(chunks', meshes', last'.events, EditOwner(last'.args))
          /\ \A i \in 1..Len(last'.events) : last'.events[i][2] = EditOwner(last'.args)
          /\ DOMAIN meshes' \ {EditOwner(last'.args)} = DOMAIN meshes \ {EditOwner(last'.args)}
          /\ \A key \in DOMAIN meshes' \ {EditOwner(last'.args)} : meshes'[key] = meshes[key]
          /\ DOMAIN chunks' = DOMAIN chunks
          /\ \A key \in DOMAIN chunks \ {EditOwner(last'.args)} : chunks'[key] = chunks[key]
          /\ loadedChunks' = loadedChunks]_vars

\* A block was placed in the middle of a rendered chunk whose neighbours are
\* rendered too; the chunk's mesh shows the new block.
C9_Witness ==
  /\ last.op = "setBlock"
  /\ last.args = <<7, 0, 7, STONE>>
  /\ {"0_0", "-1_0", "1_0", "0_-1", "0_1"} \subseteq DOMAIN meshes
  /\ \E f \in meshes["0_0"].geometry : f[1] = 7 /\ f[3] = 7

(* C10, as stated: no setBlock call, corner cells included, re-extracts    *)
(* two or more chunks besides the edited one.                              *)
C10_AtMostOneNeighbourExtracted ==
  LastEditReached =>
    Cardinality(EventsOf("extract") \ {EditOwner(last.args)}) <= 1

(* C10, amended: the chunks a setBlock re-extracts besides the edited one  *)
(* are among the adjacent chunks across the boundaries the cell lies on:   *)
(* none for an interior cell, at most one for an edge cell, at most two    *)
(* for a corner cell, and never a chunk that is not adjacent across such a *)
(* boundary.                                                               *)
C10_OnlyNeighboursAcrossBoundaries ==
  LastEditReached =>
    /\ EventsOf("extract") \ {EditOwner(last.args)} \subseteq AcrossBoundaries(last.args)
    /\ Cardinality(AcrossBoundaries(last.args)) <= 2
    /\ (EditLocalX(last.args) \in 1..(CHUNK_SIZE - 2)
          \/ EditLocalZ(last.args) \in 1..(CHUNK_SIZE - 2))
         => Cardinality(AcrossBoundaries(last.args)) <= 1

\* A block was placed on the corner cell of chunk (0,0), and both the west
\* and the north neighbour were re-extracted.
C10_Witness ==
  /\ last.op = "setBlock"
  /\ last.args = <<0, 0, 0, STONE>>
  /\ EventsOf("extract") = {"0_0", "-1_0", "0_-1"}

\* What surface extraction yields now for every key of the rendered map.
FreshGeometry(key) == BuildChunkMesh(chunks[key], chunks)

(* C11: after every update and every setBlock that returns, each mesh of   *)
(* the rendered map is what surface extraction yields at that moment from  *)
(* its chunk's blocks and the present (or absent) neighbouring chunks.     *)
C11_NoStaleMesh ==
  (last.op \in {"update", "setBlock"} /\ ~last.threw) =>
    \A key \in DOMAIN meshes :
      key \in DOMAIN chunks /\ meshes[key].geometry = FreshGeometry(key)

(* C12: when the surface extraction of a loaded chunk yields zero faces,   *)
(* update and setBlock complete without raising a fault, no mesh is added  *)
(* to the scene or the rendered map for that key, and the chunk stays      *)
(* loaded.                                                                 *)
C12_ZeroFaceExtractionIsSkipped ==
  last.op \in {"update", "setBlock"} =>
    \A key \in EventsOf("extract") :
      (key \in DOMAIN chunks /\ FreshGeometry(key) = {}) =>
        /\ ~last.threw
        /\ key \notin DOMAIN meshes
        /\ ~BagIn(key, scene)
        /\ key \in loadedChunks

\* key lies within Euclidean distance d (chunk units) of the chunk of player
\* position p.
KeyWithin(key, p, d) ==
  LET c == CoordsOfKey[key]
  IN (c[1] - OwnerOf(p[1])) * (c[1] - OwnerOf(p[1]))
       + (c[2] - OwnerOf(p[2])) * (c[2] - OwnerOf(p[2])) <= d * d

(* C13: after update, every previously rendered key that is no longer     *)
(* within renderDistance of the player's chunk but still within            *)
(* renderDistance + 1 has no mesh and keeps the same Chunk, blocks and     *)
(* light levels unchanged; and no key farther than renderDistance has a    *)
(* mesh.                                                                   *)
C13_DistantMeshesDropped ==
  [][last'.op = "update"
       => /\ \A key \in DOMAIN meshes :
               (/\ ~KeyWithin(key, last'.args, renderDistance)
                /\ KeyWithin(key, last'.args, renderDistance + 1))
                 => /\ key \notin DOMAIN meshes'
                    /\ key \in DOMAIN chunks'
                    /\ chunks'[key] = chunks[key]
          /\ \A key \in DOMAIN meshes' : KeyWithin(key, last'.args, renderDistance)]_vars

\* The block at a world coordinate, read from the stored arrays: Air outside
\* the world's height and in a chunk that is not loaded.
WorldBlock(x, y, z) ==
  IF y < 0 \/ y >= 256 \/ OwnerKey(x, z) \notin DOMAIN chunks THEN AIR
  ELSE LET cell == y * 256 + OffsetOf(z) * 16 + OffsetOf(x)
           stored == chunks[OwnerKey(x, z)].blocks
       IN IF cell \in DOMAIN stored THEN stored[cell] ELSE AIR

\* The six axis directions.
UnitVectors ==
  {<<1, 0, 0>>, <<-1, 0, 0>>, <<0, 1, 0>>, <<0, -1, 0>>, <<0, 0, 1>>, <<0, 0, -1>>}

\* The non-Air cells of the chunk at key, in local coordinates, and the kind
\* of the neighbour of such a cell in direction d.
CellsOf(key) ==
  {<<i % 16, i \div 256, (i \div 16) % 16>> : i \in DOMAIN chunks[key].blocks}
KindAt(key, cell) == chunks[key].blocks[cell[2] * 256 + cell[3] * 16 + cell[1]]
NeighbourOf(key, cell, d) ==
  WorldBlock(chunks[key].x * 16 + cell[1] + d[1], cell[2] + d[2],
             chunks[key].z * 16 + cell[3] + d[3])

\* The normals of the faces the geometry stored at key holds for cell.
FaceNormals(key, cell) ==
  {FACE_NORMALS[g[4] + 1] : g \in {h \in meshes[key].geometry :
                                     <<h[1], h[2], h[3]>> = cell}}

\* The cell lies in the part of its column that extraction scans: at most 60
\* below min(256, h + 10), h being the highest non-Air cell of the column.
InScanWindow(key, cell) ==
  LET ys == {c[2] : c \in {q \in CellsOf(key) : q[1] = cell[1] /\ q[3] = cell[3]}}
      h == CHOOSE y \in ys : \A y2 \in ys : y2 <= y
      maxY == IF h + 10 > 256 THEN 256 ELSE h + 10
  IN cell[2] >= maxY - 60 /\ cell[2] < maxY

(* C14, as stated: in an extracted mesh, a Stone cell with six Stone       *)
(* neighbours has no face, and a Stone cell with exactly one Air and five  *)
(* Stone neighbours has exactly one face, its normal toward the Air        *)
(* neighbour; for every such cell, at any height, also across chunk edges. *)
C14_StoneCulling ==
  \A key \in DOMAIN meshes : \A cell \in CellsOf(key) :
    KindAt(key, cell) = STONE =>
      LET air == {d \in UnitVectors : NeighbourOf(key, cell, d) = AIR}
          stone == {d \in UnitVectors : NeighbourOf(key, cell, d) = STONE}
      IN /\ stone = UnitVectors => FaceNormals(key, cell) = {}
         /\ (Cardinality(air) = 1 /\ Cardinality(stone) = 5)
              => FaceNormals(key, cell) = air

(* C14, amended: the same for every such cell that lies in the scanned     *)
(* part of its column; a cell below that part has no face at all.          *)
C14_StoneCullingInScanWindow ==
  \A key \in DOMAIN meshes : \A cell \in CellsOf(key) :
    /\ (KindAt(key, cell) = STONE /\ InScanWindow(key, cell)) =>
         LET air == {d \in UnitVectors : NeighbourOf(key, cell, d) = AIR}
             stone == {d \in UnitVectors : NeighbourOf(key, cell, d) = STONE}
         IN /\ stone = UnitVectors => FaceNormals(key, cell) = {}
            /\ (Cardinality(air) = 1 /\ Cardinality(stone) = 5)
                 => FaceNormals(key, cell) = air
    /\ ~InScanWindow(key, cell) => FaceNormals(key, cell) = {}

\* The geometry of chunk (0, 0) was built for a Stone cell on its west edge
\* whose only Air neighbour lies across the edge in the loaded chunk (-1, 0):
\* it holds the cell's west face and no other face of the cell.
C14_Witness ==
  /\ last.op = "buildChunkMesh"
  /\ DOMAIN meshes = {"0_0"}
  /\ "-1_0" \in DOMAIN chunks
  /\ <<0, 1, 7>> \in CellsOf("0_0")
  /\ KindAt("0_0", <<0, 1, 7>>) = STONE
  /\ {d \in UnitVectors : NeighbourOf("0_0", <<0, 1, 7>>, d) = AIR} = {<<-1, 0, 0>>}
  /\ {d \in UnitVectors : NeighbourOf("0_0", <<0, 1, 7>>, d) = STONE}
       = UnitVectors \ {<<-1, 0, 0>>}
  /\ {g \in meshes["0_0"].geometry : <<g[1], g[2], g[3]>> = <<0, 1, 7>>} = {<<0, 1, 7, 3>>}

(* C15: for every non-Air cell that extraction processes and each of the   *)
(* six directions, the face is omitted iff the neighbour is non-Air, is    *)
(* neither Water nor Leaves, and both kinds are solid and non-transparent  *)
(* in the catalog; a neighbour across the chunk edge is the block the      *)
(* manager holds there, and a neighbour at y = -1 or y = 256 is Air.       *)
C15_FaceOmittedIffOpaquePair ==
  \A key \in DOMAIN meshes : \A cell \in CellsOf(key) :
    InScanWindow(key, cell) =>
      \A d \in UnitVectors :
        LET k == KindAt(key, cell)
            n == NeighbourOf(key, cell, d)
        IN (d \notin FaceNormals(key, cell))
             <=> /\ n # AIR
                 /\ n \notin {WATER, LEAVES}
                 /\ BLOCK_PROPERTIES[k].solid /\ BLOCK_PROPERTIES[n].solid
                 /\ ~BLOCK_PROPERTIES[k].transparent /\ ~BLOCK_PROPERTIES[n].transparent

\* The geometry of chunk (0, 0) was built for a Leaves cell at the bottom of
\* the world with Stone on top: the face toward the Stone is kept because
\* Leaves are transparent, and the face toward y = -1 is kept.
C15_Witness ==
  /\ last.op = "buildChunkMesh"
  /\ DOMAIN meshes = {"0_0"}
  /\ <<7, 0, 7>> \in CellsOf("0_0")
  /\ KindAt("0_0", <<7, 0, 7>>) = LEAVES
  /\ NeighbourOf("0_0", <<7, 0, 7>>, <<0, 1, 0>>) = STONE
  /\ {<<7, 0, 7, 4>>, <<7, 0, 7, 5>>} \subseteq meshes["0_0"].geometry
  /\ <<7, 1, 7, 5>> \in meshes["0_0"].geometry

\* (x, y, z) is outside [0,16) x [0,256) x [0,16).
OutsideChunk(x, y, z) == ~(x \in 0..15 /\ y \in 0..255 /\ z \in 0..15)

(* C16: for every coordinate outside [0,16) x [0,256) x [0,16),            *)
(* Chunk.getBlock returns Air and Chunk.getLightLevel returns 0, and       *)
(* Chunk.setBlock and Chunk.setLightLevel leave every cell of both arrays  *)
(* unchanged.                                                              *)
C16_OutOfRangeAccess ==
  [][/\ \A c \in ChunkCoordinates :
          OutsideChunk(c[1], c[2], c[3]) =>
            /\ ChunkGetBlock(chunks'["0_0"], c[1], c[2], c[3]) = AIR
            /\ ChunkGetLightLevel(chunks'["0_0"], c[1], c[2], c[3]) = 0
     /\ (/\ last'.op \in {"Chunk.setBlock", "Chunk.setLightLevel"}
         /\ OutsideChunk(last'.args[1], last'.args[2], last'.args[3]))
          => chunks' = chunks]_vars

\* Stone lies on cell (0, 0, 1), which (16, 0, 0) would fall on through the
\* linear index, and the last call wrote Stone at (16, 0, 0); cell (0, 0, 0)
\* is still Air.
C16_Witness ==
  /\ last.op = "Chunk.setBlock"
  /\ last.args = <<16, 0, 0, STONE>>
  /\ ChunkGetBlock(chunks["0_0"], 0, 0, 1) = STONE
  /\ ChunkGetBlock(chunks["0_0"], 0, 0, 0) = AIR
  /\ DOMAIN chunks["0_0"].blocks = {16}

(* C17: in every reachable state every stored light level of every chunk   *)
(* is an integer in [0,15]; setLightLevel stores its argument clamped into *)
(* that range, and after calculateChunkLighting every cell is in [0,15].   *)
C17_LightLevelInRange ==
  /\ \A key \in DOMAIN chunks :
       /\ chunks[key].lightLevels.fill \in 0..15
       /\ \A i \in DOMAIN chunks[key].lightLevels.cells :
            chunks[key].lightLevels.cells[i] \in 0..15
  /\ (/\ last.op = "Chunk.setLightLevel"
      /\ ~OutsideChunk(last.args[1], last.args[2], last.args[3]))
       => ChunkGetLightLevel(chunks["0_0"], last.args[1], last.args[2], last.args[3])
            = IF last.args[4] < 0 THEN 0
              ELSE IF last.args[4] > 15 THEN 15 ELSE last.args[4]

\* A level of -1 was written to a cell of a lit chunk and reads back as 0,
\* while the Air under the chunk's one Stone block holds the 7 that the column
\* scan stamped.
C17_Witness ==
  /\ last.op = "Chunk.setLightLevel"
  /\ last.args = <<0, 0, 0, -1>>
  /\ ChunkGetLightLevel(chunks["0_0"], 0, 0, 0) = 0
  /\ ChunkGetBlock(chunks["0_0"], 15, 255, 15) = STONE
  /\ ChunkGetLightLevel(chunks["0_0"], 15, 255, 15) = 15
  /\ ChunkGetLightLevel(chunks["0_0"], 15, 254, 15) = 7
  /\ ChunkGetLightLevel(chunks["0_0"], 0, 0, 1) = 15

(* C18: ChunkManager.setBlock leaves every light level of every chunk     *)
(* unchanged, the edited cell and the cells below it included; the stored  *)
(* light may then differ from what the column scan yields on the blocks.   *)
C18_EditLeavesLightAlone ==
  [][last'.op = "setBlock"
       => /\ DOMAIN chunks' = DOMAIN chunks
          /\ \A key \in DOMAIN chunks :
               chunks'[key].lightLevels = chunks[key].lightLevels]_vars

\* Stone was placed on top of the generated block of chunk (0, 0): the block
\* underneath still holds the 15 of the load-time scan, where a scan of the
\* present column would stamp 8.
C18_Witness ==
  /\ last.op = "setBlock"
  /\ last.args = <<0, 1, 0, STONE>>
  /\ "0_0" \in DOMAIN chunks
  /\ ManagerGetBlock(chunks, 0, 1, 0) = STONE
  /\ ChunkGetLightLevel(chunks["0_0"], 0, 0, 0) = 15
  /\ ChunkGetLightLevel(CalculateChunkLighting(chunks["0_0"]), 0, 0, 0) = 8

\* Vocabulary of the generator properties.
GenColumnSet == {GenColumns[i] : i \in 1..Len(GenColumns)}
GenHeight(col) == HeightAt(last.args[1], col[1], col[2])
Generated(e) == e \in DOMAIN chunks /\ last.op \in {"new WorldGenerator", "generateChunk"}
GenBlock(e, x, y, z) == ChunkGetBlock(chunks[e], x, y, z)
DrawsOf(e) == CHOOSE draws \in EventsOf(e) : TRUE
PlacedKinds == {COBBLESTONE, WOOD, LEAVES}
Layering == {STONE, DIRT, GRASS, SAND, WATER, AIR}

\* C19: two executions of generateChunk on the same seed and the same chunk
\* coordinates hold the same block, one of Stone/Dirt/Grass/Sand/Water/Air as
\* the height of the column and the caves of the seed dictate, in every cell
\* where neither holds an ore or tree block, whatever their random draws.
C19_LayeringIsDeterministic ==
  (Generated("first") /\ Generated("second")) =>
    \A col \in GenColumnSet : \A y \in 0..(CHUNK_HEIGHT - 1) :
      LET a == GenBlock("first", col[1], y, col[2])
          b == GenBlock("second", col[1], y, col[2])
      IN (a \notin PlacedKinds /\ b \notin PlacedKinds) =>
           /\ a = b
           /\ a = ColumnBlock(y, GenHeight(col), <<col[1], y, col[2]>> \in last.args[2], FALSE)

\* Both executions have run, on different draws (ore in one, a tree in the
\* other) that left different chunks, over a carved cave cell.
C19_Witness ==
  /\ Generated("first") /\ Generated("second")
  /\ DrawsOf("first").ore = {<<1, 10, 1>>}
  /\ DrawsOf("second").ore = {}
  /\ DrawsOf("second").trees[<<0, 0>>][1] = 4
  /\ GenHeight(<<1, 1>>) = 48
  /\ GenBlock("first", 1, 10, 1) = COBBLESTONE
  /\ GenBlock("second", 1, 10, 1) = STONE
  /\ GenBlock("second", 0, 73, 0) = WOOD
  /\ GenBlock("first", 0, 73, 0) = AIR
  /\ <<0, 20, 0>> \in last.args[2]
  /\ GenBlock("first", 0, 20, 0) = AIR
  /\ GenBlock("second", 0, 20, 0) = AIR
  /\ GenBlock("first", 1, 60, 1) = WATER
  /\ GenBlock("second", 1, 60, 1) = WATER

\* C20: when generateChunk has returned, cell (0, 0, 0) of chunk (0, 0) is
\* Stone, and the cell at y = 0 of every column of surface height >= 32 is
\* Stone.
C20_FloorIsStone ==
  \A e \in Executions : Generated(e) =>
    /\ GenBlock(e, 0, 0, 0) = STONE
    /\ \A col \in GenColumnSet :
         GenHeight(col) >= TERRAIN_BASE => GenBlock(e, col[1], 0, col[2]) = STONE

\* C20 as the code has it: the cell at y = 0 of a column of surface height
\* >= 32 is Cobblestone when the ore draw of that cell fell below 0.01 and
\* Stone otherwise; so is cell (0, 0, 0) of chunk (0, 0), whose column has
\* surface height 72.
C20_FloorIsStoneOrOre ==
  \A e \in Executions : Generated(e) =>
    /\ GenHeight(<<0, 0>>) = 72
    /\ \A col \in GenColumnSet :
         GenHeight(col) >= TERRAIN_BASE =>
           GenBlock(e, col[1], 0, col[2]) =
             (IF <<col[1], 0, col[2]>> \in DrawsOf(e).ore THEN COBBLESTONE ELSE STONE)

\* One execution drew ore at (0, 0, 0), the other did not, over a seed whose
\* noise3D exceeds the cave threshold at that cell.
C20_Witness ==
  /\ Generated("first") /\ Generated("second")
  /\ <<0, 0, 0>> \in DrawsOf("first").ore
  /\ <<0, 0, 0>> \notin DrawsOf("second").ore
  /\ <<0, 0, 0>> \in last.args[2]
  /\ GenHeight(<<1, 1>>) = 59
  /\ GenBlock("first", 0, 0, 0) = COBBLESTONE
  /\ GenBlock("second", 0, 0, 0) = STONE
  /\ GenBlock("first", 1, 0, 1) = STONE

(* C21: after any sequence of LightingSystem.update(deltaTime) calls with  *)
(* deltaTime >= 0 of any magnitude and setTimeOfDay(t) calls, timeOfDay is *)
(* in [0,1): never negative and never >= 1.                                *)
C21_TimeOfDayInUnitInterval == timeOfDay >= 0 /\ timeOfDay < DAY_MS

\* The positions of an event in the trace of a handler.
EventIndexes(events, kind, key) == {i \in 1..Len(events) : events[i] = <<kind, key>>}

(* C22: for each chunk load, calculateChunkLighting runs exactly once on   *)
(* that Chunk, after generateChunk has populated it and before the chunk   *)
(* enters the loaded map or any mesh is extracted from it; it is not run   *)
(* again on a Chunk that stays loaded, neither by update nor by setBlock.  *)
C22_LitOncePerLoad ==
  [][last'.op \in {"update", "setBlock"}
       => /\ \A key \in loadedChunks' \ loadedChunks :
               LET lit == EventIndexes(last'.events, "light", key)
               IN /\ Cardinality(lit) = 1
                  /\ EventIndexes(last'.events, "generate", key) # {}
                  /\ \A i \in lit :
                       /\ \A g \in EventIndexes(last'.events, "generate", key) : g < i
                       /\ \A l \in EventIndexes(last'.events, "load", key) : i < l
                       /\ \A e \in EventIndexes(last'.events, "extract", key) : i < e
                  /\ chunks'[key].lightLevels = CalculateChunkLighting(chunks'[key]).lightLevels
          /\ \A i \in 1..Len(last'.events) :
               last'.events[i][1] = "light" => last'.events[i][2] \in loadedChunks' \ loadedChunks
          /\ \A key \in loadedChunks \cap loadedChunks' :
               chunks'[key].lightLevels = chunks[key].lightLevels]_vars

\* An update has loaded and lit chunks while other chunks stayed loaded, one
\* of them edited before and holding the light of its load.
C22_Witness ==
  /\ last.op = "update"
  /\ last.args = <<-40, 8>>
  /\ "-6_0" \in EventsOf("light")
  /\ "0_0" \in loadedChunks \ EventsOf("light")
  /\ ManagerGetBlock(chunks, 0, 1, 0) = STONE
  /\ ChunkGetLightLevel(chunks["0_0"], 0, 0, 0) = 15

(* C23: a key that stays within renderDistance + 1 of the player across    *)
(* updates keeps the same Chunk: it is generated once per load, a later    *)
(* update neither regenerates nor replaces it, so that the edits made      *)
(* through setBlock stay readable; a key that is loaded again after its    *)
(* eviction holds a freshly generated chunk, without the earlier edits.    *)
C23_LoadedChunkIsKept ==
  [][/\ last'.op = "update" =>
          /\ \A key \in loadedChunks :
               KeyWithin(key, last'.args, renderDistance + 1) =>
                 /\ key \in loadedChunks'
                 /\ key \in DOMAIN chunks'
                 /\ chunks'[key] = chunks[key]
                 /\ EventIndexes(last'.events, "generate", key) = {}
          /\ \A key \in loadedChunks' \ loadedChunks :
               /\ Cardinality(EventIndexes(last'.events, "generate", key)) = 1
               /\ \A x \in {0, 7, 15}, y \in {0, 1}, z \in {0, 7, 15} :
                    ChunkGetBlock(chunks'[key], x, y, z) =
                      IF <<x, y, z>> = <<(IF CoordsOfKey[key][1] % 2 = 0 THEN 0 ELSE 15), 0, 0>>
                        THEN STONE ELSE AIR
     /\ last'.op \in {"setBlock", "setRenderDistance"} =>
          /\ DOMAIN chunks' = DOMAIN chunks
          /\ loadedChunks' = loadedChunks
          /\ \A i \in 1..Len(last'.events) : last'.events[i][1] # "generate"]_vars

\* After the one edit of the behaviour, the player went away and came back:
\* chunk (0, 1) has been loaded again, chunk (0, 0) was kept, and the world
\* holds the generated blocks only.
C23_Witness ==
  /\ last.op = "update"
  /\ last.args = <<8, 8>>
  /\ edits = 1
  /\ "0_1" \in EventsOf("generate")
  /\ "0_0" \in loadedChunks \ EventsOf("generate")
  /\ ManagerGetBlock(chunks, 7, 0, 23) = AIR
  /\ \A key \in DOMAIN chunks : Cardinality(DOMAIN chunks[key].blocks) = 1

\* The four axis-adjacent chunks of a key.
AdjacentKeys(key) ==
  LET c == CoordsOfKey[key]
  IN {GetChunkKey(c[1] - 1, c[2]), GetChunkKey(c[1] + 1, c[2]),
      GetChunkKey(c[1], c[2] - 1), GetChunkKey(c[1], c[2] + 1)}

(* C24: whenever update extracts a mesh for a key, the four axis-adjacent  *)
(* chunks of that key are already loaded (every load of the tick precedes  *)
(* every extraction); consequently after every update each rendered key    *)
(* has its four neighbours loaded.                                         *)
C24_NeighboursLoadedAtExtraction ==
  [][last'.op = "update"
       => /\ \A e \in 1..Len(last'.events) :
               last'.events[e][1] = "extract" =>
                 \A n \in AdjacentKeys(last'.events[e][2]) :
                   \/ n \in loadedChunks
                   \/ \E l \in EventIndexes(last'.events, "load", n) : l < e
          /\ \A key \in DOMAIN meshes' : AdjacentKeys(key) \subseteq loadedChunks']_vars

(* C25: when update evicts a key that is no longer in desiredLoad, it      *)
(* drops the key's geometry (scene, dispose, rendered map) before it drops *)
(* the chunk data: at no step of the eviction does a mesh exist for a key  *)
(* whose Chunk has left the loaded map.                                    *)
C25_GeometryDroppedBeforeData ==
  [][last'.op = "update"
       => \A u \in 1..Len(last'.events) :
            (last'.events[u][1] = "unload" /\ last'.events[u][2] \in DOMAIN meshes)
              => \E r \in EventIndexes(last'.events, "remove", last'.events[u][2]) : r < u]_vars

\* The cells at which the light of the chunk is compared with the reference
\* scan, and the number of non-Air cells of a cell's column above it.
LightProbes == {0, 15} \X {0, 1, 2, 3, 4, 254, 255} \X {0, 1, 15}
SolidAbove(key, cell) ==
  Cardinality({i \in DOMAIN chunks[key].blocks :
                 i % 16 = cell[1] /\ (i \div 16) % 16 = cell[3] /\ i \div 256 > cell[2]})
IsAir(key, cell) == (cell[2] * 256 + cell[3] * 16 + cell[1]) \notin DOMAIN chunks[key].blocks

\* The running value under n non-Air cells, when only the first of them
\* lowers it, and when each of them does.
RunningAfterFirst(n) == IF n = 0 THEN 15 ELSE IF 15 - 8 > 2 THEN 15 - 8 ELSE 2
RECURSIVE RunningAfterEach(_)
RunningAfterEach(n) ==
  IF n = 0 THEN 15
  ELSE IF RunningAfterEach(n - 1) - 8 > 2 THEN RunningAfterEach(n - 1) - 8 ELSE 2

(* C26, as stated: after calculateChunkLighting the light of each column   *)
(* is that of a scan from y = 255 down with a running value starting at    *)
(* 15: an Air cell holds the running value; the first non-Air cell holds   *)
(* max(8, running) and lowers the running value to max(2, running - 8) for *)
(* the cells below; for every arrangement of the column, and whatever the  *)
(* other columns hold.                                                     *)
C26_ColumnScanFirstBlockOnly ==
  last.op = "calculateChunkLighting" =>
    \A cell \in LightProbes :
      ChunkGetLightLevel(chunks["0_0"], cell[1], cell[2], cell[3]) =
        LET n == SolidAbove("0_0", cell)
        IN IF ~IsAir("0_0", cell) /\ n = 0
             THEN (IF RunningAfterFirst(0) > 8 THEN RunningAfterFirst(0) ELSE 8)
             ELSE RunningAfterFirst(n)

(* C26, amended: the same scan with every non-Air cell met, not only the   *)
(* first, holding max(8, running) and lowering the running value to        *)
(* max(2, running - 8) for the cells below.                                *)
C26_ColumnScanEveryBlock ==
  last.op = "calculateChunkLighting" =>
    \A cell \in LightProbes :
      ChunkGetLightLevel(chunks["0_0"], cell[1], cell[2], cell[3]) =
        LET running == RunningAfterEach(SolidAbove("0_0", cell))
        IN IF IsAir("0_0", cell) THEN running
           ELSE IF running > 8 THEN running ELSE 8

\* A column with Stone at y = 3 and y = 1 has been lit, next to an empty
\* column: 15 above and on the upper block, 7 in the Air between the two, 8 on
\* the lower block, 2 in the Air below it.
C26_Witness ==
  /\ last.op = "calculateChunkLighting"
  /\ DOMAIN chunks["0_0"].blocks = {ChunkGetIndex(0, 3, 0), ChunkGetIndex(0, 1, 0)}
  /\ ChunkGetLightLevel(chunks["0_0"], 0, 4, 0) = 15
  /\ ChunkGetLightLevel(chunks["0_0"], 0, 3, 0) = 15
  /\ ChunkGetLightLevel(chunks["0_0"], 0, 2, 0) = 7
  /\ ChunkGetLightLevel(chunks["0_0"], 0, 1, 0) = 8
  /\ ChunkGetLightLevel(chunks["0_0"], 0, 0, 0) = 2
  /\ ChunkGetLightLevel(chunks["0_0"], 0, 0, 1) = 15

\* The kind the column fill gives to the cell at height y of a column of
\* surface height h.
ColumnFill(y, h) ==
  IF y < h - 3 THEN STONE
  ELSE IF y < h THEN DIRT
  ELSE IF y = h THEN (IF h > 65 THEN GRASS ELSE IF h > 58 THEN SAND ELSE DIRT)
  ELSE IF y <= 60 /\ h < 60 THEN WATER
  ELSE AIR

(* C27: in every generated column of surface height h, for every y in      *)
(* [0,256), a cell not altered by cave carving, ore or trees is Stone if   *)
(* y < h-3; Dirt if h-3 <= y < h; at y = h Grass if h > 65, else Sand if   *)
(* h > 58, else Dirt; Water if h < y <= 60 and h < 60; Air otherwise; so   *)
(* the cell at h+1 is Water exactly when h < 60.                           *)
C27_ColumnFill ==
  \A e \in Executions : Generated(e) =>
    \A col \in GenColumnSet :
      LET h == GenHeight(col)
      IN /\ \A y \in 0..(CHUNK_HEIGHT - 1) :
              LET b == GenBlock(e, col[1], y, col[2])
                  carved == <<col[1], y, col[2]>> \in last.args[2] /\ b = AIR /\ y <= h
              IN (b \notin PlacedKinds /\ ~carved) => b = ColumnFill(y, h)
         /\ (h + 1 \in 0..(CHUNK_HEIGHT - 1)
               /\ GenBlock(e, col[1], h + 1, col[2]) \notin PlacedKinds)
              => (GenBlock(e, col[1], h + 1, col[2]) = WATER <=> h < 60)
         /\ (h + 1 \in 0..(CHUNK_HEIGHT - 1)
               /\ GenBlock(e, col[1], h + 1, col[2]) \notin PlacedKinds)
              => (GenBlock(e, col[1], h + 1, col[2]) = AIR <=> h >= 60)

\* A chunk was generated over a Sand column of surface height 59 under one
\* cell of Water, next to a Grass column of height 72 with a carved cell.
C27_Witness ==
  /\ Generated("first")
  /\ GenHeight(<<1, 1>>) = 59
  /\ GenBlock("first", 1, 55, 1) = STONE
  /\ GenBlock("first", 1, 56, 1) = DIRT
  /\ GenBlock("first", 1, 59, 1) = SAND
  /\ GenBlock("first", 1, 60, 1) = WATER
  /\ GenBlock("first", 1, 61, 1) = AIR
  /\ GenBlock("first", 0, 72, 0) = GRASS
  /\ GenBlock("first", 0, 73, 0) = AIR
  /\ GenBlock("first", 0, 20, 0) = AIR
  /\ GenBlock("first", 0, 19, 0) = STONE

\* The canopy offsets at which the tree of column col, with its canopy
\* centred at height centreY, writes Leaves: inside the chunk, within
\* Manhattan distance 3 of the centre, drawn, not the top of the trunk, and
\* above the terrain and the water of the cell's own column.
CanopyOffsets(col, centreY, kept) ==
  {d \in kept :
     /\ col[1] + d[1] \in 0..15 /\ col[2] + d[3] \in 0..15
     /\ centreY + d[2] < 256
     /\ (IF d[1] < 0 THEN 0 - d[1] ELSE d[1]) + (IF d[2] < 0 THEN 0 - d[2] ELSE d[2])
          + (IF d[3] < 0 THEN 0 - d[3] ELSE d[3]) <= 3
     /\ d # <<0, -1, 0>>
     /\ <<col[1] + d[1], col[2] + d[3]>> \in GenColumnSet
          => ColumnFill(centreY + d[2], GenHeight(<<col[1] + d[1], col[2] + d[3]>>)) = AIR}

(* C28: every Wood trunk cell and Leaves canopy cell written by a tree     *)
(* during generateChunk is still Wood / Leaves when generateChunk returns: *)
(* neither the fill of a column processed later nor another tree           *)
(* overwrites it.                                                          *)
C28_TreeCellsSurvive ==
  \A e \in Executions : Generated(e) =>
    \A col \in GenColumnSet :
      LET tree == DrawsOf(e).trees[col]
          h == GenHeight(col)
      IN (tree[1] > 0 /\ h > 65) =>
           /\ \A i \in 0..(tree[1] - 1) : GenBlock(e, col[1], h + 1 + i, col[2]) = WOOD
           /\ \A d \in CanopyOffsets(col, h + 1 + tree[1], tree[2]) :
                GenBlock(e, col[1] + d[1], h + 1 + tree[1] + d[2], col[2] + d[3]) = LEAVES

(* C29: update is idempotent: a second update with the same player         *)
(* position and the same renderDistance, with no setBlock in between,      *)
(* loads no chunk, unloads none, extracts no mesh, removes none, and       *)
(* leaves the loaded map, the rendered map and the scene as the first call *)
(* left them.                                                              *)
C29_UpdateIsIdempotent ==
  [][(last.op = "update" /\ last'.op = "update" /\ last'.args = last.args)
       => /\ last'.events = <<>>
          /\ chunks' = chunks
          /\ loadedChunks' = loadedChunks
          /\ meshes' = meshes
          /\ scene' = scene]_vars

\* The events of a handler that concern the mesh of key: "add" is scene.add
\* with meshes.set, "remove" is scene.remove with geometry.dispose.
MeshTraffic(events, key) ==
  {i \in 1..Len(events) : events[i] \in {<<"add", key>>, <<"remove", key>>}}

LastOf(S) == CHOOSE i \in S : \A j \in S : j <= i

\* A handler that starts with the rendered keys before and ends with the
\* rendered keys after treats every mesh soundly: a mesh is added for a key
\* only while the key has none (no mesh is orphaned in the scene), a mesh is
\* removed and disposed only while the key has one (no geometry is disposed
\* twice), and the keys that hold a mesh at the end are the rendered keys.
MeshTrafficIsSound(before, events, after) ==
  \A key \in before \cup after \cup {events[i][2] : i \in 1..Len(events)} :
    LET traffic == MeshTraffic(events, key)
    IN /\ \A i \in traffic :
            LET earlier == {j \in traffic : j < i}
            IN IF earlier = {}
                 THEN (events[i][1] = "remove") <=> (key \in before)
                 ELSE events[LastOf(earlier)][1] # events[i][1]
       /\ IF traffic = {}
            THEN (key \in before) <=> (key \in after)
            ELSE (events[LastOf(traffic)][1] = "add") <=> (key \in after)

(* C30: in every state reachable by update, setBlock, setRenderDistance    *)
(* and destroy, each mesh ever submitted to the scene is either the        *)
(* current rendered-map entry of its key and in the scene, or has been     *)
(* removed from the scene with its geometry disposed exactly once: no      *)
(* orphan mesh in the scene, no disposed geometry in the rendered map, no  *)
(* geometry disposed twice.                                                *)
C30_MeshesAccounted ==
  /\ [](scene = SetToBag(DOMAIN meshes))
  /\ [][MeshTrafficIsSound(DOMAIN meshes, last'.events, DOMAIN meshes')]_vars

\* A setBlock on a chunk border has replaced the mesh of the edited chunk
\* and the mesh of its rendered neighbour, and an update before it had
\* evicted other meshes.
C30_Witness ==
  /\ last.op = "setBlock"
  /\ last.args = <<0, 0, 0, STONE>>
  /\ Regenerated(last.events, "0_0") /\ "0_0" \in EventsOf("add")
  /\ Regenerated(last.events, "-1_0") /\ "-1_0" \in EventsOf("add")
  /\ {"0_0", "-1_0"} \subseteq DOMAIN meshes
  /\ "-3_0" \in DOMAIN meshes
  /\ scene = SetToBag(DOMAIN meshes)

====
